---- MODULE Spec2Model ----
(***************************************************************************)
(* A model of Clio, the argument-parsing library (clio.c / clio.h), and of *)
(* the demo program en.c that uses it.                                     *)
(*                                                                         *)
(* C strings are sequences of one-character strings: the token --force is  *)
(* <<"-","-","f","o","r","c","e">>.  Pointers to heap objects (Option,     *)
(* ArgParser) and function pointers are positive integers, NULL is 0.  A   *)
(* nullable char* is a sequence of length at most one: NULLSTR is <<>>,    *)
(* a pointer to the string s is <<s>>.                                     *)
(***************************************************************************)
EXTENDS Integers, Sequences, FiniteSets, TLC

VARIABLES
    scn,        \* which registration script and token alphabet this run uses
    pcreg,      \* number of registration calls of the script already made
    phase,      \* "reg" (before the parse) | "parse" | "done" (ap_parse has just
                \* returned) | "post" (the caller has set or cleared since) | "exit" |
                \* "queried" (the caller has read a result) | "freed" (after ap_free)
    parsers,    \* heap of ArgParser structs, indexed by pointer
    optheap,    \* heap of Option structs, indexed by pointer
    stream,     \* the ArgStream of the parse in progress (or of the last one)
    stack,      \* call stack of argparser_parse_stream activations
    exit_code,  \* status passed to exit(), when phase = "exit"
    output,     \* what was printed before exit(): a help/version text or an error kind
    fate,       \* history: for each token read so far, who read it and as what
    calls,      \* history: the command callbacks invoked, in order
    nprog,      \* number of programmatic set / clear-list calls made
    nparse,     \* number of ap_parse calls made
    used,       \* number of tokens the earlier ap_parse calls were given
    ret,        \* what the last query of the caller returned
    released    \* history: the heap objects ap_free has released, in order

vars == <<scn, pcreg, phase, parsers, optheap, stream, stack, exit_code, output, fate, calls,
          nprog, nparse, used, ret, released>>

-----------------------------------------------------------------------------
(* Bounds of the model.                                                      *)

\* Longest argument vector (argv without the program name) drawn from the alphabet.
MaxArgs == 3

\* Most programmatic set / clear-list calls in one run.
MaxProg == 1

\* Most ap_parse calls in one run.
MaxParse == 2

-----------------------------------------------------------------------------
(* C strings and characters.                                                 *)

NULL == 0
NULLSTR == <<>>
StrPtr(s) == <<s>>

\* The terminating character of a C string.
NUL == ""

\* s[i] in C (0-based); reading the terminator yields NUL.
CharAt(s, i) == IF i < Len(s) THEN s[i + 1] ELSE NUL

strlen(s) == Len(s)

isdigit(c) == c \in {"0", "1", "2", "3", "4", "5", "6", "7", "8", "9"}

isspace(c) == c \in {" ", "\t", "\n", "\r"}

\* Index (0-based) of the first occurrence of character c in s, or -1.
strchr(s, c) == IF \E i \in 1..Len(s) : s[i] = c
                THEN (CHOOSE i \in 1..Len(s) : s[i] = c /\ \A j \in 1..(i - 1) : s[j] # c) - 1
                ELSE -1

\* The string s + n (pointer arithmetic on a char*).
StrFrom(s, n) == SubSeq(s, n + 1, Len(s))

\* The first n characters of s.
StrUpto(s, n) == SubSeq(s, 1, n)

\* strncmp(s, p, strlen(p)) == 0
HasPrefix(s, p) == Len(s) >= Len(p) /\ SubSeq(s, 1, Len(p)) = p

Range(f) == {f[i] : i \in DOMAIN f}

-----------------------------------------------------------------------------
(* try_str_to_int: strtol(arg, &endptr, 0) and the two checks after it.      *)

INT_MAX == 2147483647
INT_MIN == -INT_MAX - 1

DigitValue(c) ==
    CASE c = "0" -> 0 [] c = "1" -> 1 [] c = "2" -> 2 [] c = "3" -> 3 [] c = "4" -> 4
      [] c = "5" -> 5 [] c = "6" -> 6 [] c = "7" -> 7 [] c = "8" -> 8 [] c = "9" -> 9
      [] c \in {"a", "A"} -> 10 [] c \in {"b", "B"} -> 11 [] c \in {"c", "C"} -> 12
      [] c \in {"d", "D"} -> 13 [] c \in {"e", "E"} -> 14 [] c \in {"f", "F"} -> 15
      [] OTHER -> 36

RECURSIVE SkipSpace(_, _)
SkipSpace(s, i) == IF isspace(CharAt(s, i)) THEN SkipSpace(s, i + 1) ELSE i

\* Accumulates the digits of s from index i in the given base.  The magnitude is
\* kept negated so that INT_MIN is representable; over is set once the value
\* leaves the range of an int (which covers strtol's own ERANGE).
RECURSIVE ScanDigits(_, _, _, _, _)
ScanDigits(s, i, base, nacc, over) ==
    LET d == DigitValue(CharAt(s, i)) IN
    IF d >= base THEN [end |-> i, nacc |-> nacc, over |-> over]
    ELSE IF over \/ nacc < (INT_MIN + d) \div base + (IF (INT_MIN + d) % base = 0 THEN 0 ELSE 1)
         THEN ScanDigits(s, i + 1, base, nacc, TRUE)
         ELSE ScanDigits(s, i + 1, base, nacc * base - d, FALSE)

\* strtol, after the digits from index i2 were scanned into r.
StrtolResult(neg, i2, r) ==
    [result |-> IF r.over \/ (~neg /\ r.nacc = INT_MIN) THEN 0
                ELSE IF neg THEN r.nacc ELSE -r.nacc,
     endptr |-> IF r.end > i2 THEN r.end ELSE 0,
     range  |-> r.over \/ (~neg /\ r.nacc = INT_MIN)]

\* strtol with base 0, from the first character after the sign: a 0x or 0X
\* followed by a hexadecimal digit selects base 16, another leading 0 base 8.
StrtolBase(s, neg, i1) ==
    IF CharAt(s, i1) = "0" /\ CharAt(s, i1 + 1) \in {"x", "X"}
       /\ DigitValue(CharAt(s, i1 + 2)) < 16
    THEN StrtolResult(neg, i1 + 2, ScanDigits(s, i1 + 2, 16, 0, FALSE))
    ELSE StrtolResult(neg, i1, ScanDigits(s, i1, IF CharAt(s, i1) = "0" THEN 8 ELSE 10,
                                          0, FALSE))

\* strtol, from the first character i0 after the leading white space.
StrtolSign(s, i0) ==
    StrtolBase(s, CharAt(s, i0) = "-", IF CharAt(s, i0) \in {"-", "+"} THEN i0 + 1 ELSE i0)

\* result, endptr (as an index into s) and whether the value is out of int range.
strtol(s) == StrtolSign(s, SkipSpace(s, 0))

\* ok = FALSE stands for the call of err(), i.e. exit(1), with message kind msg.
try_str_to_int(arg) ==
    LET r == strtol(arg) IN
    IF r.range THEN [ok |-> FALSE, val |-> 0, msg |-> "out of range"]
    ELSE IF CharAt(arg, r.endptr) # NUL
         THEN [ok |-> FALSE, val |-> 0, msg |-> "cannot parse as an integer"]
         ELSE [ok |-> TRUE, val |-> r.result, msg |-> ""]

-----------------------------------------------------------------------------
(* Map: an insertion-ordered list of (key, value) entries.                   *)

map_new == <<>>

map_add(map, key, value) == Append(map, [key |-> key, value |-> value])

\* The keys strtok_r(keystr, " ") yields, in order.
RECURSIVE SplitKeys(_, _, _)
SplitKeys(s, i, cur) ==
    IF i >= Len(s)
    THEN IF cur = <<>> THEN <<>> ELSE <<cur>>
    ELSE IF CharAt(s, i) = " "
         THEN (IF cur = <<>> THEN <<>> ELSE <<cur>>) \o SplitKeys(s, i + 1, <<>>)
         ELSE SplitKeys(s, i + 1, Append(cur, CharAt(s, i)))

RECURSIVE MapAddKeys(_, _, _)
MapAddKeys(map, keys, value) ==
    IF keys = <<>> THEN map
    ELSE MapAddKeys(map_add(map, Head(keys), value), Tail(keys), value)

\* map_add_splitkey, had it bound the first key only.
map_add_splitkey_FirstKey(map, keystr, value) ==
    map_add(map, Head(SplitKeys(keystr, 0, <<>>)), value)

map_add_splitkey(map, keystr, value) == MapAddKeys(map, SplitKeys(keystr, 0, <<>>), value)

map_contains(map, key) == \E i \in 1..Len(map) : map[i].key = key

\* map_get, had it searched the entries from the last to the first.
map_get_Last(map, key) ==
    IF \E i \in 1..Len(map) : map[i].key = key
    THEN map[CHOOSE i \in 1..Len(map) :
                 map[i].key = key /\ \A j \in (i + 1)..Len(map) : map[j].key # key].value
    ELSE NULL

map_get(map, key) ==
    IF \E i \in 1..Len(map) : map[i].key = key
    THEN map[CHOOSE i \in 1..Len(map) :
                 map[i].key = key /\ \A j \in 1..(i - 1) : map[j].key # key].value
    ELSE NULL

-----------------------------------------------------------------------------
(* Option.                                                                   *)

option_new == [type |-> "NONE", found |-> FALSE, greedy |-> FALSE, values |-> <<>>]

\* option_clear, had it also reset the found flag.
option_clear_Unfound(opt) == [opt EXCEPT !.values = <<>>, !.found = FALSE]

option_clear(opt) == [opt EXCEPT !.values = <<>>]

\* option_append, had it overwritten the values instead of adding to them.
option_append_Replace(opt, value) == [opt EXCEPT !.values = <<value>>]

option_append(opt, value) == [opt EXCEPT !.values = Append(@, value)]

option_set_flag(opt, value) == option_append(opt, value)
option_set_str(opt, value) == option_append(opt, value)
option_set_int(opt, value) == option_append(opt, value)

\* ok = FALSE stands for the exit(1) of a failed coercion.
option_try_set(opt, arg) ==
    IF opt.type = "STRING" THEN [ok |-> TRUE, opt |-> option_set_str(opt, arg), msg |-> ""]
    ELSE IF opt.type = "INTEGER"
         THEN LET r == try_str_to_int(arg) IN
              IF r.ok THEN [ok |-> TRUE, opt |-> option_set_int(opt, r.val), msg |-> ""]
              ELSE [ok |-> FALSE, opt |-> opt, msg |-> r.msg]
         ELSE [ok |-> TRUE, opt |-> opt, msg |-> ""]

option_new_flag == option_set_flag([option_new EXCEPT !.type = "FLAG"], FALSE)
option_new_str(value) == option_set_str([option_new EXCEPT !.type = "STRING"], value)
\* option_new_int, had it ignored the default it is given.
option_new_int_Zero(value) == option_set_int([option_new EXCEPT !.type = "INTEGER"], 0)

option_new_int(value) == option_set_int([option_new EXCEPT !.type = "INTEGER"], value)
option_new_flag_list == [option_new EXCEPT !.type = "FLAG"]
option_new_str_list(greedy) == [option_new EXCEPT !.type = "STRING", !.greedy = greedy]
option_new_int_list(greedy) == [option_new EXCEPT !.type = "INTEGER", !.greedy = greedy]

-----------------------------------------------------------------------------
(* ArgStream.                                                                *)

\* What a read past the end of the argument array yields.
OOB == <<"<out of bounds>">>

argstream_new(len, args) == [len |-> len, index |-> 0, args |-> args]

argstream_peek(s) == IF s.index < s.len THEN s.args[s.index + 1] ELSE OOB

\* The argument returned, and the stream with its index advanced.
argstream_next(s) == [arg |-> argstream_peek(s), stream |-> [s EXCEPT !.index = @ + 1]]

\* argstream_has_next, had it compared with <= instead of <.
argstream_has_next_OffByOne(s) == s.index <= s.len

argstream_has_next(s) == s.index < s.len

\* argstream_has_next_value, had it refused every element that begins with a dash.
argstream_has_next_value_NoDash(s) ==
    IF argstream_has_next(s) THEN CharAt(argstream_peek(s), 0) # "-" ELSE FALSE

\* argstream_has_next_value, had it accepted every next element.
argstream_has_next_value_Any(s) == argstream_has_next(s)

argstream_has_next_value(s) ==
    IF argstream_has_next(s)
    THEN LET next == argstream_peek(s) IN
         IF CharAt(next, 0) = "-"
         THEN strlen(next) = 1 \/ isdigit(CharAt(next, 1))
         ELSE TRUE
    ELSE FALSE

-----------------------------------------------------------------------------
(* ArgList and ArgParser.                                                    *)

arglist_new == <<>>

\* arglist_append, had it stored the argument over the last one of a non-empty list.
arglist_append_Overwrite(list, arg) ==
    IF list = <<>> THEN <<arg>> ELSE [list EXCEPT ![Len(list)] = arg]

arglist_append(list, arg) == Append(list, arg)

argparser_new(helptext, version) ==
    [helptext   |-> helptext,
     version    |-> version,
     options    |-> map_new,
     commands   |-> map_new,
     callbacks  |-> map_new,
     arguments  |-> arglist_new,
     cmd_name   |-> NULLSTR,
     cmd_parser |-> NULL,
     parent     |-> NULL]

\* Queries.  A query by an unregistered name aborts the process (argparser_get_opt);
\* the operators below are used with registered names only.
argparser_get_opt(parser, name) == map_get(parser.options, name)

argparser_found(parser, name, opts) == opts[argparser_get_opt(parser, name)].found

\* option_get_*, had it read the first value instead of the last.
option_get_First(opt) == opt.values[1]

\* option_get_flag / _str / _int: values[len - 1].
option_get(opt) == opt.values[Len(opt.values)]

argparser_get(parser, name, opts) == option_get(opts[argparser_get_opt(parser, name)])

argparser_len_list(parser, name, opts) == Len(opts[argparser_get_opt(parser, name)].values)

\* option_get_*_list: a copy of the values (NULL, here <<>>, when there are none).
argparser_get_list(parser, name, opts) == opts[argparser_get_opt(parser, name)].values

argparser_has_args(parser) == Len(parser.arguments) > 0

argparser_has_cmd(parser) == parser.cmd_name # NULLSTR

argparser_get_cmd_name(parser) == parser.cmd_name

argparser_get_cmd_parser(parser) == parser.cmd_parser

-----------------------------------------------------------------------------
(* The option handlers, as functions of the option heap and the stream.     *)
(* A result says whether the handler returned or called exit(), and lists in *)
(* took, for each token the handler read from the stream, the option that    *)
(* read it and whether the value was appended.                               *)

Ret(opts, s, took) ==
    [opts |-> opts, stream |-> s, exited |-> FALSE, code |-> 0, out |-> "", took |-> took]

Exit(opts, s, took, code, out) ==
    [opts |-> opts, stream |-> s, exited |-> TRUE, code |-> code, out |-> out, took |-> took]

\* err(): print "Error: <msg>." and exit(1).
err(opts, s, took, msg) == Exit(opts, s, took, 1, msg)

s_help == <<"h", "e", "l", "p">>
s_version == <<"v", "e", "r", "s", "i", "o", "n">>
s_dashdash == <<"-", "-">>

\* while (argstream_has_next_value(stream)) option_try_set(opt, argstream_next(stream));
RECURSIVE GreedyLoop(_, _, _, _)
GreedyLoop(opts, opt, s, took) ==
    IF argstream_has_next_value(s)
    THEN LET n == argstream_next(s)
             r == option_try_set(opts[opt], n.arg)
         IN  IF r.ok
             THEN GreedyLoop([opts EXCEPT ![opt] = r.opt], opt, n.stream,
                             Append(took, [opt |-> opt, ok |-> TRUE]))
             ELSE err(opts, n.stream, Append(took, [opt |-> opt, ok |-> FALSE]), r.msg)
    ELSE Ret(opts, s, took)

\* argparser_parse_equals_option, had it accepted an empty value.
argparser_parse_equals_option_EmptyOk(parser, prefix, arg, opts, s) ==
    LET eq    == strchr(arg, "=")
        name  == StrUpto(arg, eq)
        value == StrFrom(arg, eq + 1)
        opt   == map_get(parser.options, name)
    IN  IF opt = NULL THEN err(opts, s, <<>>, "not a recognised option")
        ELSE LET o1 == [opts EXCEPT ![opt].found = TRUE] IN
             IF o1[opt].type = "FLAG"
             THEN err(o1, s, <<>>, "invalid format for boolean flag")
             ELSE LET r == option_try_set(o1[opt], value) IN
                  IF r.ok THEN Ret([o1 EXCEPT ![opt] = r.opt], s, <<>>)
                  ELSE err(o1, s, <<>>, r.msg)

\* argparser_parse_equals_option, had it not marked the option as found.
argparser_parse_equals_option_NotFound(parser, prefix, arg, opts, s) ==
    LET eq    == strchr(arg, "=")
        name  == StrUpto(arg, eq)
        value == StrFrom(arg, eq + 1)
        opt   == map_get(parser.options, name)
    IN  IF opt = NULL THEN err(opts, s, <<>>, "not a recognised option")
        ELSE IF opts[opt].type = "FLAG"
             THEN err(opts, s, <<>>, "invalid format for boolean flag")
             ELSE IF strlen(value) = 0
                  THEN err(opts, s, <<>>, "missing argument")
                  ELSE LET r == option_try_set(opts[opt], value) IN
                       IF r.ok THEN Ret([opts EXCEPT ![opt] = r.opt], s, <<>>)
                       ELSE err(opts, s, <<>>, r.msg)

\* argparser_parse_equals_option, had a greedy option gone on to take the
\* values that follow in the stream.
argparser_parse_equals_option_Greedy(parser, prefix, arg, opts, s) ==
    LET eq    == strchr(arg, "=")
        name  == StrUpto(arg, eq)
        value == StrFrom(arg, eq + 1)
        opt   == map_get(parser.options, name)
    IN  IF opt = NULL THEN err(opts, s, <<>>, "not a recognised option")
        ELSE LET o1 == [opts EXCEPT ![opt].found = TRUE] IN
             IF o1[opt].type = "FLAG"
             THEN err(o1, s, <<>>, "invalid format for boolean flag")
             ELSE IF strlen(value) = 0
                  THEN err(o1, s, <<>>, "missing argument")
                  ELSE LET r == option_try_set(o1[opt], value) IN
                       IF ~r.ok THEN err(o1, s, <<>>, r.msg)
                       ELSE IF r.opt.greedy
                            THEN GreedyLoop([o1 EXCEPT ![opt] = r.opt], opt, s, <<>>)
                            ELSE Ret([o1 EXCEPT ![opt] = r.opt], s, <<>>)

argparser_parse_equals_option(parser, prefix, arg, opts, s) ==
    LET eq    == strchr(arg, "=")
        name  == StrUpto(arg, eq)
        value == StrFrom(arg, eq + 1)
        opt   == map_get(parser.options, name)
    IN  IF opt = NULL THEN err(opts, s, <<>>, "not a recognised option")
        ELSE LET o1 == [opts EXCEPT ![opt].found = TRUE] IN
             IF o1[opt].type = "FLAG"
             THEN err(o1, s, <<>>, "invalid format for boolean flag")
             ELSE IF strlen(value) = 0
                  THEN err(o1, s, <<>>, "missing argument")
                  ELSE LET r == option_try_set(o1[opt], value) IN
                       IF r.ok THEN Ret([o1 EXCEPT ![opt] = r.opt], s, <<>>)
                       ELSE err(o1, s, <<>>, r.msg)

\* ParseRegisteredLong, had it set the option's greedy field instead of found.
ParseRegisteredLong_SetsGreedy(parser, arg, opts, s) ==
    LET opt == map_get(parser.options, arg)
        o1  == [opts EXCEPT ![opt].greedy = TRUE]
    IN  IF o1[opt].type = "FLAG"
        THEN Ret([o1 EXCEPT ![opt] = option_set_flag(@, TRUE)], s, <<>>)
        ELSE IF argstream_has_next_value(s)
        THEN LET n == argstream_next(s)
                 r == option_try_set(o1[opt], n.arg)
             IN  IF ~r.ok
                 THEN err(o1, n.stream, <<[opt |-> opt, ok |-> FALSE]>>, r.msg)
                 ELSE IF r.opt.greedy
                 THEN GreedyLoop([o1 EXCEPT ![opt] = r.opt], opt, n.stream,
                                 <<[opt |-> opt, ok |-> TRUE]>>)
                 ELSE Ret([o1 EXCEPT ![opt] = r.opt], n.stream,
                          <<[opt |-> opt, ok |-> TRUE]>>)
        ELSE err(o1, s, <<>>, "missing argument")

\* ParseRegisteredLong, had it gone on without a value instead of failing.
ParseRegisteredLong_NoMissing(parser, arg, opts, s) ==
    LET opt == map_get(parser.options, arg)
        o1  == [opts EXCEPT ![opt].found = TRUE]
    IN  IF o1[opt].type = "FLAG"
        THEN Ret([o1 EXCEPT ![opt] = option_set_flag(@, TRUE)], s, <<>>)
        ELSE IF argstream_has_next_value(s)
        THEN LET n == argstream_next(s)
                 r == option_try_set(o1[opt], n.arg)
             IN  IF ~r.ok
                 THEN err(o1, n.stream, <<[opt |-> opt, ok |-> FALSE]>>, r.msg)
                 ELSE IF r.opt.greedy
                 THEN GreedyLoop([o1 EXCEPT ![opt] = r.opt], opt, n.stream,
                                 <<[opt |-> opt, ok |-> TRUE]>>)
                 ELSE Ret([o1 EXCEPT ![opt] = r.opt], n.stream,
                          <<[opt |-> opt, ok |-> TRUE]>>)
        ELSE Ret(o1, s, <<>>)

\* The branch of argparser_parse_long_option for a registered option name.
ParseRegisteredLong(parser, arg, opts, s) ==
    LET opt == map_get(parser.options, arg)
        o1  == [opts EXCEPT ![opt].found = TRUE]
    IN  IF o1[opt].type = "FLAG"
        THEN Ret([o1 EXCEPT ![opt] = option_set_flag(@, TRUE)], s, <<>>)
        ELSE IF argstream_has_next_value(s)
        THEN LET n == argstream_next(s)
                 r == option_try_set(o1[opt], n.arg)
             IN  IF ~r.ok
                 THEN err(o1, n.stream, <<[opt |-> opt, ok |-> FALSE]>>, r.msg)
                 ELSE IF r.opt.greedy
                 THEN GreedyLoop([o1 EXCEPT ![opt] = r.opt], opt, n.stream,
                                 <<[opt |-> opt, ok |-> TRUE]>>)
                 ELSE Ret([o1 EXCEPT ![opt] = r.opt], n.stream,
                          <<[opt |-> opt, ok |-> TRUE]>>)
        ELSE err(o1, s, <<>>, "missing argument")

\* argparser_parse_long_option, had it tried the automatic --help and --version
\* before the registered options.
argparser_parse_long_option_AutoFirst(parser, arg, opts, s) ==
    IF strchr(arg, "=") # -1
    THEN argparser_parse_equals_option(parser, s_dashdash, arg, opts, s)
    ELSE IF arg = s_help /\ parser.helptext # NULLSTR
    THEN Exit(opts, s, <<>>, 0, parser.helptext[1])
    ELSE IF arg = s_version /\ parser.version # NULLSTR
    THEN Exit(opts, s, <<>>, 0, parser.version[1])
    ELSE IF map_contains(parser.options, arg)
    THEN ParseRegisteredLong(parser, arg, opts, s)
    ELSE err(opts, s, <<>>, "not a recognised option")

argparser_parse_long_option(parser, arg, opts, s) ==
    IF strchr(arg, "=") # -1
    THEN argparser_parse_equals_option(parser, s_dashdash, arg, opts, s)
    ELSE IF map_contains(parser.options, arg)
    THEN ParseRegisteredLong(parser, arg, opts, s)
    ELSE IF arg = s_help /\ parser.helptext # NULLSTR
    THEN Exit(opts, s, <<>>, 0, parser.helptext[1])
    ELSE IF arg = s_version /\ parser.version # NULLSTR
    THEN Exit(opts, s, <<>>, 0, parser.version[1])
    ELSE err(opts, s, <<>>, "not a recognised option")

\* The loop of argparser_parse_short_option, had it ended once an option of the
\* bundle had taken its value.
RECURSIVE ShortLoop_Break(_, _, _, _, _, _)
ShortLoop_Break(parser, arg, i, opts, s, took) ==
    IF i >= strlen(arg) THEN Ret(opts, s, took)
    ELSE LET key == <<CharAt(arg, i)>>
             opt == map_get(parser.options, key)
         IN  IF opt = NULL THEN err(opts, s, took, "not a recognised option")
             ELSE LET o1 == [opts EXCEPT ![opt].found = TRUE] IN
                  IF o1[opt].type = "FLAG"
                  THEN ShortLoop_Break(parser, arg, i + 1,
                                       [o1 EXCEPT ![opt] = option_set_flag(@, TRUE)], s, took)
                  ELSE IF argstream_has_next_value(s)
                  THEN LET n == argstream_next(s)
                           r == option_try_set(o1[opt], n.arg)
                       IN  IF ~r.ok
                           THEN err(o1, n.stream, Append(took, [opt |-> opt, ok |-> FALSE]), r.msg)
                           ELSE LET t1 == Append(took, [opt |-> opt, ok |-> TRUE])
                                    o2 == [o1 EXCEPT ![opt] = r.opt]
                                IN  IF r.opt.greedy THEN GreedyLoop(o2, opt, n.stream, t1)
                                    ELSE Ret(o2, n.stream, t1)
                  ELSE err(o1, s, took, "missing argument")

\* for (size_t i = 0; i < strlen(arg); i++) { ... }, from character i on.
RECURSIVE ShortLoop(_, _, _, _, _, _)
ShortLoop(parser, arg, i, opts, s, took) ==
    IF i >= strlen(arg) THEN Ret(opts, s, took)
    ELSE LET key == <<CharAt(arg, i)>>
             opt == map_get(parser.options, key)
         IN  IF opt = NULL THEN err(opts, s, took, "not a recognised option")
             ELSE LET o1 == [opts EXCEPT ![opt].found = TRUE] IN
                  IF o1[opt].type = "FLAG"
                  THEN ShortLoop(parser, arg, i + 1,
                                 [o1 EXCEPT ![opt] = option_set_flag(@, TRUE)], s, took)
                  ELSE IF argstream_has_next_value(s)
                  THEN LET n == argstream_next(s)
                           r == option_try_set(o1[opt], n.arg)
                       IN  IF ~r.ok
                           THEN err(o1, n.stream, Append(took, [opt |-> opt, ok |-> FALSE]), r.msg)
                           ELSE LET t1 == Append(took, [opt |-> opt, ok |-> TRUE])
                                    o2 == [o1 EXCEPT ![opt] = r.opt]
                                    g  == IF r.opt.greedy THEN GreedyLoop(o2, opt, n.stream, t1)
                                          ELSE Ret(o2, n.stream, t1)
                                IN  IF g.exited THEN g
                                    ELSE ShortLoop(parser, arg, i + 1, g.opts, g.stream, g.took)
                  ELSE err(o1, s, took, "missing argument")

\* argparser_parse_short_option, had its loop started at the second character.
argparser_parse_short_option_SkipFirst(parser, arg, opts, s) ==
    IF strchr(arg, "=") # -1
    THEN argparser_parse_equals_option(parser, <<"-">>, arg, opts, s)
    ELSE ShortLoop(parser, arg, 1, opts, s, <<>>)

argparser_parse_short_option(parser, arg, opts, s) ==
    IF strchr(arg, "=") # -1
    THEN argparser_parse_equals_option(parser, <<"-">>, arg, opts, s)
    ELSE ShortLoop(parser, arg, 0, opts, s, <<>>)

-----------------------------------------------------------------------------
(* The inputs of a run: what the caller registers and the tokens it passes.  *)

s_push   == <<"p", "u", "s", "h">>
s_force  == <<"f", "o", "r", "c", "e">>
s_name   == <<"n", "a", "m", "e">>
s_num    == <<"n", "u", "m">>
s_tags   == <<"t", "a", "g", "s">>
s_bad    == <<"b", "a", "d">>
s_v_verbose == <<"v", " ", "v", "e", "r", "b", "o", "s", "e">>
s_verbose   == <<"v", "e", "r", "b", "o", "s", "e">>
s_o_out  == <<"o", " ", "o", "u", "t">>
s_out    == <<"o", "u", "t">>
s_file   == <<"f", ".", "t">>
s_val1   == <<"v", "1">>
s_val2   == <<"v", "2">>
s_neg5   == <<"-", "5">>
s_dash   == <<"-">>
s_add    == <<"a", "d", "d">>
s_rm     == <<"r", "m">>
s_foo    == <<"f", "o", "o">>
s_show   == <<"s", "h", "o", "w">>
s_bar    == <<"b", "a", "r">>

Long(name) == <<"-", "-">> \o name
Short(name) == <<"-">> \o name
Eq(name, value) == name \o <<"=">> \o value

\* One registration call of the public interface.
RegCall(op, p, name, sval, ival, greedy, help, cb) ==
    [op |-> op, parser |-> p, name |-> name, sval |-> sval, ival |-> ival,
     greedy |-> greedy, help |-> help, cb |-> cb]
RegFlag(p, name)            == RegCall("add_flag", p, name, <<>>, 0, FALSE, NULLSTR, NULL)
RegStr(p, name, value)      == RegCall("add_str", p, name, value, 0, FALSE, NULLSTR, NULL)
RegInt(p, name, value)      == RegCall("add_int", p, name, <<>>, value, FALSE, NULLSTR, NULL)
RegStrList(p, name, greedy) == RegCall("add_str_list", p, name, <<>>, 0, greedy, NULLSTR, NULL)
RegCmd(p, name, help, cb)   == RegCall("add_cmd", p, name, <<>>, 0, FALSE, help, cb)

\* prog is the number of set / clear-list calls the caller's program makes at
\* most when MaxProg is 1 (0: it makes none).
Scenario(helptext, version, script, alphabet, extra, prog) ==
    [helptext |-> helptext, version |-> version, script |-> script,
     alphabet |-> alphabet, extra |-> extra, prog |-> prog]

\* A command with an option of its own (spec: `app push --force file.txt`).
ScnPush ==
    Scenario(StrPtr("Help!"), StrPtr("Version!"),
             <<RegCmd(1, s_push, StrPtr("Push!"), 1), RegFlag(2, s_force)>>,
             {s_push, Long(s_force), s_file, s_dashdash, s_help, s_neg5},
             {<<s_dashdash, s_push, s_dashdash, Long(s_force)>>}, 0)

\* Short flags a, b and a one-valued short option c (spec: `-abc val1 val2`).
ScnShort ==
    Scenario(NULLSTR, NULLSTR,
             <<RegFlag(1, <<"a">>), RegFlag(1, <<"b">>), RegStr(1, <<"c">>, <<"d">>)>>,
             {<<"-", "a", "b", "c">>, <<"-", "c", "a">>, s_val1, s_val2, s_neg5, s_dash},
             {}, 0)

\* The automatic --help and --version, with and without the texts.
ScnAuto(helptext, version) ==
    Scenario(helptext, version,
             <<RegFlag(1, s_force)>>,
             {Long(s_help), Long(s_version), Long(s_bad), Long(s_force)},
             {}, 0)

\* Options registered under the names help and version.
ScnHelpOpt ==
    Scenario(StrPtr("Help!"), StrPtr("Version!"),
             <<RegFlag(1, s_help), RegStr(1, s_version, <<"d">>)>>,
             {Long(s_help), Long(s_version), s_val1, Long(s_bad)},
             {}, 0)

\* A string option and an integer option, in the long and in the = form.
ScnEq ==
    Scenario(NULLSTR, NULLSTR,
             <<RegStr(1, s_name, <<"d">>), RegInt(1, s_num, 7)>>,
             {Long(s_name), Long(Eq(s_name, s_val1)), s_val1, Long(s_num), s_neg5,
              Long(Eq(s_num, s_val1))},
             {}, 0)

\* A greedy list option (spec: `--tags x y z -- w`).
ScnGreedy ==
    Scenario(NULLSTR, NULLSTR,
             <<RegStrList(1, <<"t", " ", "t", "a", "g", "s">>, TRUE)>>,
             {Long(s_tags), <<"x">>, <<"y">>, s_dashdash, Short(<<"t">>), s_neg5},
             {<<Long(s_tags), <<"x">>, <<"y">>, <<"z">>, s_dashdash, <<"w">>>>},
             0)

\* Options registered under two keys each, also set and cleared by the program.
ScnAlias ==
    Scenario(NULLSTR, NULLSTR,
             <<RegFlag(1, s_v_verbose), RegStrList(1, s_o_out, FALSE)>>,
             {Short(<<"v">>), Long(s_verbose), Short(<<"o">>), Long(s_out), s_val1},
             {}, 1)

\* The = form: a value with a = in it, an empty value, a flag, an unregistered
\* key, the short form, and a greedy list.
ScnEqForms ==
    Scenario(NULLSTR, NULLSTR,
             <<RegStr(1, <<"n", " ", "n", "a", "m", "e">>, <<"d">>), RegFlag(1, s_force),
               RegStrList(1, s_tags, TRUE)>>,
             {Long(Eq(s_name, <<"a", "=", "b">>)), Long(Eq(s_name, <<>>)),
              Long(Eq(s_force, s_val1)), Long(Eq(s_bad, s_val1)),
              Short(Eq(<<"n">>, s_val1)), Long(Eq(s_tags, <<"x">>)), <<"y">>},
             {}, 0)

\* Positional arguments read as integers (spec: ["10","20"] and ["10","x"]).
ScnInts ==
    Scenario(NULLSTR, NULLSTR, <<>>,
             {<<"1", "0">>, <<"2", "0">>, <<"x">>},
             {}, 0)

\* Commands below a command, with and without a callback, one under two names,
\* and an option under two names on the command in the middle.
ScnNested ==
    Scenario(NULLSTR, NULLSTR,
             <<RegCmd(1, <<"r", " ", "r", "e", "m">>, StrPtr("Remote!"), 1),
               RegCmd(2, s_add, StrPtr("Add!"), 2),
               RegCmd(2, s_rm, NULLSTR, NULL),
               RegFlag(2, s_v_verbose)>>,
             {<<"r">>, <<"r", "e", "m">>, s_add, s_rm, <<"x">>, Short(<<"v">>)},
             {}, 0)

\* A scalar string option the program also sets, before or after the parse.
ScnSet ==
    Scenario(NULLSTR, NULLSTR,
             <<RegStr(1, s_name, <<"d">>)>>,
             {Long(s_name), Long(Eq(s_name, <<"x">>)), s_val1, <<"y">>},
             {}, 1)

\* A list option, an integer option and a command, on a program that clears
\* and sets several times.
ScnClear ==
    Scenario(NULLSTR, NULLSTR,
             <<RegStrList(1, s_tags, FALSE), RegInt(1, s_num, 7),
               RegCmd(1, s_push, StrPtr("Push!"), NULL)>>,
             {Long(s_tags), s_push},
             {}, 3)

\* One-valued short options a and b and a short flag c (`-abc foo bar` and
\* `-a foo -b bar -c`).
ScnBundle ==
    Scenario(NULLSTR, NULLSTR,
             <<RegStr(1, <<"a">>, <<"d">>), RegStr(1, <<"b">>, <<"d">>), RegFlag(1, <<"c">>)>>,
             {<<"-", "a", "b", "c">>, s_foo, s_bar},
             {<<Short(<<"a">>), s_foo, Short(<<"b">>), s_bar, Short(<<"c">>)>>}, 0)

\* Three levels of commands, each with a callback of its own (`a b c x`).
ScnChain ==
    Scenario(NULLSTR, NULLSTR,
             <<RegCmd(1, <<"a">>, NULLSTR, 1), RegCmd(2, <<"b">>, NULLSTR, 2),
               RegCmd(3, <<"c">>, NULLSTR, 3)>>,
             {<<"a">>, <<"b">>, <<"c">>, <<"x">>},
             {}, 0)

\* A key registered twice on one node: for two options, and for two commands.
ScnDup ==
    Scenario(NULLSTR, NULLSTR,
             <<RegStr(1, s_name, <<"d">>), RegStr(1, s_name, <<"e">>),
               RegCmd(1, s_push, StrPtr("Push!"), 1), RegCmd(1, s_push, StrPtr("Other!"), 2)>>,
             {Long(s_name), s_val1, s_push, s_help},
             {}, 0)

\* A greedy list option under a short and a long key, given in the = form
\* (`--tags=a b c`).
ScnEqGreedy ==
    Scenario(NULLSTR, NULLSTR,
             <<RegStrList(1, <<"t", " ", "t", "a", "g", "s">>, TRUE)>>,
             {Long(Eq(s_tags, <<"a">>)), Short(Eq(<<"t">>, <<"a">>)), <<"b">>, <<"c">>},
             {}, 0)

\* The demo program: ap_new("Help!", "Version!"), then ip_init registers the
\* command show with help text "Command!" and the callback ip_show (callback 1).
ScnDemo ==
    Scenario(StrPtr("Help!"), StrPtr("Version!"),
             <<RegCmd(1, s_show, StrPtr("Command!"), 1)>>,
             {s_show, <<"x">>, s_dashdash, Long(s_bad)},
             {}, 0)

Scenarios ==
    <<ScnPush, ScnShort,
      ScnAuto(StrPtr("Help!"), StrPtr("Version!")), ScnAuto(StrPtr("Help!"), NULLSTR),
      ScnAuto(NULLSTR, StrPtr("Version!")), ScnAuto(NULLSTR, NULLSTR),
      ScnHelpOpt, ScnEq, ScnGreedy, ScnAlias, ScnEqForms, ScnInts, ScnNested, ScnSet, ScnClear,
      ScnBundle, ScnChain, ScnDup,
      ScnEqGreedy, ScnDemo>>

Script == Scenarios[scn].script

\* The caller is main of the demo program, which makes its calls in a fixed
\* order: ap_new, ip_init, ap_parse, ap_has_cmd, ap_free.
IsDemo == Scenarios[scn] = ScnDemo

\* All sequences over S of length at most n.
RECURSIVE SeqsUpTo(_, _)
SeqsUpTo(S, n) ==
    IF n = 0 THEN {<<>>}
    ELSE LET shorter == SeqsUpTo(S, n - 1) IN
         shorter \cup {Append(q, t) : q \in shorter, t \in S}

\* The argument vectors (without the program name) of a run: of the first
\* parse, and of a later parse when the ones before took `before` tokens.
Argvs == SeqsUpTo(Scenarios[scn].alphabet, MaxArgs) \cup Scenarios[scn].extra

LaterArgvs(before) ==
    IF before >= MaxArgs THEN {<<>>} ELSE SeqsUpTo(Scenarios[scn].alphabet, MaxArgs - before)

-----------------------------------------------------------------------------
(* Construction and registration.                                            *)

\* No query has been made yet.
NoRet == [kind |-> "none"]

Unread == [node |-> NULL, parsing |-> FALSE, kind |-> "unread", opt |-> NULL]

\* The state after ap_new(helptext, version).
Init ==
    /\ scn \in DOMAIN Scenarios
    /\ pcreg = 0
    /\ phase = "reg"
    /\ parsers = <<argparser_new(Scenarios[scn].helptext, Scenarios[scn].version)>>
    /\ optheap = <<>>
    /\ stream = argstream_new(0, <<>>)
    /\ stack = <<>>
    /\ exit_code = 0
    /\ output = ""
    /\ fate = <<>>
    /\ calls = <<>>
    /\ nprog = 0
    /\ nparse = 0
    /\ used = 0
    /\ ret = NoRet
    /\ released = <<>>

\* The next call of the script, when it is a call of op.
NextCall(op) == phase = "reg" /\ pcreg < Len(Script) /\ Script[pcreg + 1].op = op

\* The common body of the argparser_add_<type> functions: the new Option goes on
\* the heap and every key of the name is bound to it.
RegisterOption(call, opt) ==
    /\ optheap' = Append(optheap, opt)
    /\ parsers' = [parsers EXCEPT ![call.parser].options =
                       map_add_splitkey(@, call.name, Len(optheap) + 1)]
    /\ pcreg' = pcreg + 1
    /\ UNCHANGED <<scn, phase, stream, stack, exit_code, output, fate, calls,
                   nprog, nparse, used, ret, released>>

argparser_add_flag ==
    /\ NextCall("add_flag")
    /\ RegisterOption(Script[pcreg + 1], option_new_flag)

argparser_add_str ==
    /\ NextCall("add_str")
    /\ RegisterOption(Script[pcreg + 1], option_new_str(Script[pcreg + 1].sval))

argparser_add_int ==
    /\ NextCall("add_int")
    /\ RegisterOption(Script[pcreg + 1], option_new_int(Script[pcreg + 1].ival))

argparser_add_str_list ==
    /\ NextCall("add_str_list")
    /\ RegisterOption(Script[pcreg + 1], option_new_str_list(Script[pcreg + 1].greedy))

argparser_add_cmd ==
    /\ NextCall("add_cmd")
    /\ LET call == Script[pcreg + 1]
           cmd_parser == [argparser_new(call.help, NULLSTR) EXCEPT !.parent = call.parser]
           id == Len(parsers) + 1
       IN  parsers' = [Append(parsers, cmd_parser) EXCEPT
                          ![call.parser].commands = map_add_splitkey(@, call.name, id),
                          ![call.parser].callbacks = map_add_splitkey(@, call.name, call.cb)]
    /\ pcreg' = pcreg + 1
    /\ UNCHANGED <<scn, phase, optheap, stream, stack, exit_code, output, fate, calls,
                   nprog, nparse, used, ret, released>>

-----------------------------------------------------------------------------
(* Parsing: argparser_parse and the loop of argparser_parse_stream.          *)

\* An activation of argparser_parse_stream: its parser, its local switch
\* `parsing`, where it stands (in the loop, or back from the recursive call of
\* a command) and the locals of the command branch.
Frame(p) == [parser |-> p, parsing |-> TRUE, pc |-> "loop",
             cmd_parser |-> NULL, cmd_callback |-> NULL]

Top == stack[Len(stack)]

\* The loop is about to fetch an argument.
InLoop ==
    /\ phase = "parse"
    /\ stack # <<>>
    /\ Top.pc = "loop"
    /\ argstream_has_next(stream)

\* Classify, had `--` been tested before the switch `parsing`.
Classify_TerminatorFirst(parser, parsing, arg) ==
    IF arg = s_dashdash THEN "terminator"
    ELSE IF ~parsing THEN "verbatim"
    ELSE IF HasPrefix(arg, s_dashdash) THEN "long"
    ELSE IF CharAt(arg, 0) = "-"
         THEN IF strlen(arg) = 1 \/ isdigit(CharAt(arg, 1)) THEN "dash" ELSE "short"
    ELSE IF map_contains(parser.commands, arg) THEN "command"
    ELSE IF arg = s_help THEN "help"
    ELSE "positional"

\* Classify, had every argument that begins with a dash been a short option.
Classify_NoDashCheck(parser, parsing, arg) ==
    IF ~parsing THEN "verbatim"
    ELSE IF arg = s_dashdash THEN "terminator"
    ELSE IF HasPrefix(arg, s_dashdash) THEN "long"
    ELSE IF CharAt(arg, 0) = "-" THEN "short"
    ELSE IF map_contains(parser.commands, arg) THEN "command"
    ELSE IF arg = s_help THEN "help"
    ELSE "positional"

\* The branch of the loop body that handles arg.
Classify(parser, parsing, arg) ==
    IF ~parsing THEN "verbatim"
    ELSE IF arg = s_dashdash THEN "terminator"
    ELSE IF HasPrefix(arg, s_dashdash) THEN "long"
    ELSE IF CharAt(arg, 0) = "-"
         THEN IF strlen(arg) = 1 \/ isdigit(CharAt(arg, 1)) THEN "dash" ELSE "short"
    ELSE IF map_contains(parser.commands, arg) THEN "command"
    ELSE IF arg = s_help THEN "help"
    ELSE "positional"

Branch(kind) ==
    /\ InLoop
    /\ Classify(parsers[Top.parser], Top.parsing, argstream_next(stream).arg) = kind

\* The record of the token at the cursor, read by the loop as `kind`.
Read(kind) == [node |-> Top.parser, parsing |-> Top.parsing, kind |-> kind, opt |-> NULL]

\* The records of the tokens a handler took from the stream after the cursor.
Taken(took) ==
    [i \in 1..Len(fate) |->
        IF i = stream.index + 1 THEN Read("option")
        ELSE IF i > stream.index + 1 /\ i <= stream.index + 1 + Len(took)
             THEN [node |-> Top.parser, parsing |-> Top.parsing,
                   kind |-> IF took[i - stream.index - 1].ok THEN "value" ELSE "badvalue",
                   opt |-> took[i - stream.index - 1].opt]
             ELSE fate[i]]

ap_parse ==
    /\ phase \in {"reg", "done", "post"}
    /\ nparse < MaxParse
    /\ IsDemo => (pcreg = Len(Script) /\ nparse = 0)
    /\ \E args \in (IF nparse = 0 THEN Argvs ELSE LaterArgvs(used)) :
          /\ stream' = argstream_new(Len(args), args)
          /\ fate' = [i \in 1..Len(args) |-> Unread]
          /\ used' = used + Len(args)
    /\ stack' = <<Frame(1)>>
    /\ phase' = "parse"
    /\ nparse' = nparse + 1
    /\ UNCHANGED <<scn, pcreg, parsers, optheap, exit_code, output, calls, nprog, ret, released>>

\* AppendArgument, had the argument been peeked at and not consumed.
AppendArgument_NoAdvance(kind) ==
    /\ parsers' = [parsers EXCEPT ![Top.parser].arguments =
                       arglist_append(@, argstream_peek(stream))]
    /\ fate' = [fate EXCEPT ![stream.index + 1] = Read(kind)]
    /\ UNCHANGED <<scn, pcreg, phase, optheap, stream, stack, exit_code, output, calls,
                   nprog, nparse, used, ret, released>>

\* arglist_append(parser->arguments, arg) with the cursor advanced.
AppendArgument(kind) ==
    /\ parsers' = [parsers EXCEPT ![Top.parser].arguments =
                       arglist_append(@, argstream_next(stream).arg)]
    /\ stream' = argstream_next(stream).stream
    /\ fate' = [fate EXCEPT ![stream.index + 1] = Read(kind)]
    /\ UNCHANGED <<scn, pcreg, phase, optheap, stack, exit_code, output, calls,
                   nprog, nparse, used, ret, released>>

\* if (!parsing) { arglist_append(...); continue; }
ParseVerbatim == Branch("verbatim") /\ AppendArgument("positional")

\* if (strcmp(arg, "--") == 0) { parsing = false; continue; }
ParseTerminator ==
    /\ Branch("terminator")
    /\ stack' = [stack EXCEPT ![Len(stack)].parsing = FALSE]
    /\ stream' = argstream_next(stream).stream
    /\ fate' = [fate EXCEPT ![stream.index + 1] = Read("terminator")]
    /\ UNCHANGED <<scn, pcreg, phase, parsers, optheap, exit_code, output, calls,
                   nprog, nparse, used, ret, released>>

\* The effect of an option handler's result r on the state.
Handled(r) ==
    /\ optheap' = r.opts
    /\ stream' = r.stream
    /\ fate' = Taken(r.took)
    /\ IF r.exited
       THEN phase' = "exit" /\ exit_code' = r.code /\ output' = r.out
       ELSE UNCHANGED <<phase, exit_code, output>>
    /\ UNCHANGED <<scn, pcreg, parsers, stack, calls, nprog, nparse, used, ret, released>>

ParseLongOption ==
    /\ Branch("long")
    /\ LET n == argstream_next(stream) IN
       Handled(argparser_parse_long_option(parsers[Top.parser], StrFrom(n.arg, 2),
                                           optheap, n.stream))

\* A single dash, or a dash followed by a digit, is a positional argument.
ParseDash == Branch("dash") /\ AppendArgument("positional")

\* ParseShortOption, had a command's parser looked the option up on its parent.
ParseShortOption_OnParent ==
    /\ Branch("short")
    /\ LET n == argstream_next(stream)
           up == parsers[Top.parser].parent
       IN  Handled(argparser_parse_short_option(
                      parsers[IF up # NULL THEN up ELSE Top.parser], StrFrom(n.arg, 1),
                      optheap, n.stream))

ParseShortOption ==
    /\ Branch("short")
    /\ LET n == argstream_next(stream) IN
       Handled(argparser_parse_short_option(parsers[Top.parser], StrFrom(n.arg, 1),
                                            optheap, n.stream))

\* ParseCommand, had it kept parsing the rest of the stream against the same
\* parser instead of the command's.
ParseCommand_SameParser ==
    /\ Branch("command")
    /\ LET n == argstream_next(stream)
           parser == parsers[Top.parser]
           cmd_parser == map_get(parser.commands, n.arg)
           cmd_callback == map_get(parser.callbacks, n.arg)
       IN  /\ parsers' = [parsers EXCEPT ![Top.parser].cmd_name = StrPtr(n.arg),
                                         ![Top.parser].cmd_parser = cmd_parser]
           /\ stack' = Append([stack EXCEPT ![Len(stack)].pc = "after_cmd",
                                            ![Len(stack)].cmd_parser = cmd_parser,
                                            ![Len(stack)].cmd_callback = cmd_callback],
                              Frame(Top.parser))
           /\ stream' = n.stream
    /\ fate' = [fate EXCEPT ![stream.index + 1] = Read("command")]
    /\ UNCHANGED <<scn, pcreg, phase, optheap, exit_code, output, calls,
                   nprog, nparse, used, ret, released>>

\* ParseCommand, had it invoked the callback before the recursive call.
ParseCommand_CallFirst ==
    /\ Branch("command")
    /\ LET n == argstream_next(stream)
           parser == parsers[Top.parser]
           cmd_parser == map_get(parser.commands, n.arg)
           cmd_callback == map_get(parser.callbacks, n.arg)
       IN  /\ parsers' = [parsers EXCEPT ![Top.parser].cmd_name = StrPtr(n.arg),
                                         ![Top.parser].cmd_parser = cmd_parser]
           /\ stack' = Append([stack EXCEPT ![Len(stack)].pc = "after_cmd",
                                            ![Len(stack)].cmd_parser = cmd_parser,
                                            ![Len(stack)].cmd_callback = NULL],
                              Frame(cmd_parser))
           /\ stream' = n.stream
           /\ calls' = IF cmd_callback # NULL
                       THEN Append(calls, [cb |-> cmd_callback, parser |-> cmd_parser,
                                           index |-> stream.index, depth |-> Len(stack)])
                       ELSE calls
    /\ fate' = [fate EXCEPT ![stream.index + 1] = Read("command")]
    /\ UNCHANGED <<scn, pcreg, phase, optheap, exit_code, output,
                   nprog, nparse, used, ret, released>>

\* The command branch up to the recursive call of argparser_parse_stream.
ParseCommand ==
    /\ Branch("command")
    /\ LET n == argstream_next(stream)
           parser == parsers[Top.parser]
           cmd_parser == map_get(parser.commands, n.arg)
           cmd_callback == map_get(parser.callbacks, n.arg)
       IN  /\ parsers' = [parsers EXCEPT ![Top.parser].cmd_name = StrPtr(n.arg),
                                         ![Top.parser].cmd_parser = cmd_parser]
           /\ stack' = Append([stack EXCEPT ![Len(stack)].pc = "after_cmd",
                                            ![Len(stack)].cmd_parser = cmd_parser,
                                            ![Len(stack)].cmd_callback = cmd_callback],
                              Frame(cmd_parser))
           /\ stream' = n.stream
    /\ fate' = [fate EXCEPT ![stream.index + 1] = Read("command")]
    /\ UNCHANGED <<scn, pcreg, phase, optheap, exit_code, output, calls,
                   nprog, nparse, used, ret, released>>

\* Back from the recursive call: if (cmd_callback != NULL) cmd_callback(cmd_parser);
CallCallback ==
    /\ phase = "parse"
    /\ stack # <<>>
    /\ Top.pc = "after_cmd"
    /\ calls' = IF Top.cmd_callback # NULL
                THEN Append(calls, [cb |-> Top.cmd_callback, parser |-> Top.cmd_parser,
                                    index |-> stream.index, depth |-> Len(stack)])
                ELSE calls
    /\ stack' = [stack EXCEPT ![Len(stack)].pc = "loop"]
    /\ UNCHANGED <<scn, pcreg, phase, parsers, optheap, stream, exit_code, output, fate,
                   nprog, nparse, used, ret, released>>

\* The loop, had it no branch for the help command: the token is a positional.
ParseHelp_AsPositional == Branch("help") /\ AppendArgument("positional")

\* The automatic help command.  puts(NULL), for a command registered without
\* help text, is undefined: the process prints "(null)" and exits 0, or crashes.
ParseHelp ==
    /\ Branch("help")
    /\ LET n == argstream_next(stream)
           parser == parsers[Top.parser]
       IN  IF argstream_has_next(n.stream)
           THEN LET m == argstream_next(n.stream) IN
                /\ stream' = m.stream
                /\ fate' = [fate EXCEPT ![stream.index + 1] = Read("help"),
                                         ![stream.index + 2] = Read("helparg")]
                /\ IF map_contains(parser.commands, m.arg)
                   THEN LET cmd_parser == parsers[map_get(parser.commands, m.arg)] IN
                        IF cmd_parser.helptext # NULLSTR
                        THEN exit_code' = 0 /\ output' = cmd_parser.helptext[1]
                        ELSE exit_code' \in {0, 139} /\ output' = "(null)"
                   ELSE exit_code' = 1 /\ output' = "not a recognised command"
           ELSE /\ stream' = n.stream
                /\ fate' = [fate EXCEPT ![stream.index + 1] = Read("help")]
                /\ exit_code' = 1
                /\ output' = "the help command requires an argument"
    /\ phase' = "exit"
    /\ UNCHANGED <<scn, pcreg, parsers, optheap, stack, calls, nprog, nparse, used, ret, released>>

\* else arglist_append(parser->arguments, arg);
ParsePositional == Branch("positional") /\ AppendArgument("positional")

\* ParseReturn, had the loop of a command's parser stopped after any token.
ParseReturn_Early ==
    /\ phase = "parse"
    /\ stack # <<>>
    /\ Top.pc = "loop"
    /\ Len(stack) > 1 \/ ~argstream_has_next(stream)
    /\ stack' = SubSeq(stack, 1, Len(stack) - 1)
    /\ phase' = IF Len(stack) = 1 THEN "done" ELSE "parse"
    /\ UNCHANGED <<scn, pcreg, parsers, optheap, stream, exit_code, output, fate, calls,
                   nprog, nparse, used, ret, released>>

\* The loop ends: argparser_parse_stream returns to its caller, which is the
\* command branch of the parent or argparser_parse (which frees the stream).
ParseReturn ==
    /\ phase = "parse"
    /\ stack # <<>>
    /\ Top.pc = "loop"
    /\ ~argstream_has_next(stream)
    /\ stack' = SubSeq(stack, 1, Len(stack) - 1)
    /\ phase' = IF Len(stack) = 1 THEN "done" ELSE "parse"
    /\ UNCHANGED <<scn, pcreg, parsers, optheap, stream, exit_code, output, fate, calls,
                   nprog, nparse, used, ret, released>>

-----------------------------------------------------------------------------
(* Programmatic setters and clear-list, before or after a parse.             *)

\* The caller may set and clear: the scenario says so, and the bound allows it.
CanProg(p, name) ==
    /\ phase \in {"reg", "done", "post"}
    /\ Scenarios[scn].prog > 0
    /\ nprog < Scenarios[scn].prog + MaxProg - 1
    /\ p \in DOMAIN parsers
    /\ map_contains(parsers[p].options, name)

Keys(map) == {map[i].key : i \in DOMAIN map}

Programmatic(opt, new) ==
    /\ optheap' = [optheap EXCEPT ![opt] = new]
    /\ nprog' = nprog + 1
    /\ phase' = IF phase = "reg" THEN "reg" ELSE "post"
    /\ UNCHANGED <<scn, pcreg, parsers, stream, stack, exit_code, output, fate, calls,
                   nparse, used, ret, released>>

\* The public calls, on parser p with an option name (and a value).
ap_clear_list(p, name) ==
    /\ CanProg(p, name)
    /\ LET opt == argparser_get_opt(parsers[p], name) IN
       Programmatic(opt, option_clear(optheap[opt]))

ap_set_flag(p, name, value) ==
    /\ CanProg(p, name)
    /\ LET opt == argparser_get_opt(parsers[p], name) IN
       /\ optheap[opt].type = "FLAG"
       /\ Programmatic(opt, option_set_flag(optheap[opt], value))

ap_set_str(p, name, value) ==
    /\ CanProg(p, name)
    /\ LET opt == argparser_get_opt(parsers[p], name) IN
       /\ optheap[opt].type = "STRING"
       /\ Programmatic(opt, option_set_str(optheap[opt], value))

ap_set_int(p, name, value) ==
    /\ CanProg(p, name)
    /\ LET opt == argparser_get_opt(parsers[p], name) IN
       /\ optheap[opt].type = "INTEGER"
       /\ Programmatic(opt, option_set_int(optheap[opt], value))

\* The values the caller passes to ap_set_str, and to ap_set_int.
SetStrValues == {s_val1, s_val2}
SetIntValues == {5}

argparser_clear_list ==
    \E p \in DOMAIN parsers : \E name \in Keys(parsers[p].options) : ap_clear_list(p, name)

argparser_set_flag ==
    \E p \in DOMAIN parsers : \E name \in Keys(parsers[p].options) : \E value \in BOOLEAN :
        ap_set_flag(p, name, value)

argparser_set_str ==
    \E p \in DOMAIN parsers : \E name \in Keys(parsers[p].options) :
    \E value \in SetStrValues :
        ap_set_str(p, name, value)

argparser_set_int ==
    \E p \in DOMAIN parsers : \E name \in Keys(parsers[p].options) : \E value \in SetIntValues :
        ap_set_int(p, name, value)

-----------------------------------------------------------------------------
(* Queries of the caller after a parse, and ap_free.                         *)

\* The loop of argparser_get_args_as_ints over the arguments from index i on:
\* try_str_to_int exits the process at the first argument that does not coerce.
RECURSIVE ArgsAsInts(_, _, _)
ArgsAsInts(arguments, i, ints) ==
    IF i > Len(arguments) THEN [ok |-> TRUE, ints |-> ints, failed |-> 0, msg |-> ""]
    ELSE LET r == try_str_to_int(arguments[i]) IN
         IF r.ok THEN ArgsAsInts(arguments, i + 1, Append(ints, r.val))
         ELSE [ok |-> FALSE, ints |-> ints, failed |-> i, msg |-> r.msg]

\* argparser_get_args_as_ints, had its loop started at the second argument.
argparser_get_args_as_ints_SkipFirst(parser) == ArgsAsInts(parser.arguments, 2, <<>>)

argparser_get_args_as_ints(parser) == ArgsAsInts(parser.arguments, 1, <<>>)

\* The caller reads results once the parse has returned.
CanQuery == phase \in {"done", "post"} /\ ~IsDemo

\* ap_get_args_as_ints on some parser.  When the call ends the process nothing
\* is returned: ret then only records which argument failed.
ap_get_args_as_ints ==
    /\ CanQuery
    /\ \E p \in DOMAIN parsers :
          LET r == argparser_get_args_as_ints(parsers[p]) IN
          IF r.ok
          THEN /\ phase' = "queried"
               /\ ret' = [kind |-> "ints", parser |-> p, val |-> r.ints]
               /\ UNCHANGED <<exit_code, output>>
          ELSE /\ phase' = "exit"
               /\ exit_code' = 1
               /\ output' = r.msg
               /\ ret' = [kind |-> "noreturn", parser |-> p, failed |-> r.failed]
    /\ UNCHANGED <<scn, pcreg, parsers, optheap, stream, stack, fate, calls,
                   nprog, nparse, used, released>>

\* ap_get_flag / ap_get_str / ap_get_int by some registered key.  With no value
\* in the option the read of values[len - 1] is out of bounds: the call returns
\* an indeterminate value, or the process crashes.
ap_get ==
    /\ CanQuery
    /\ \E p \in DOMAIN parsers : \E name \in Keys(parsers[p].options) :
          LET opt == argparser_get_opt(parsers[p], name) IN
          IF Len(optheap[opt].values) > 0
          THEN /\ phase' = "queried"
               /\ ret' = [kind |-> "value", opt |-> opt, val |-> option_get(optheap[opt])]
               /\ UNCHANGED <<exit_code, output>>
          ELSE \/ /\ phase' = "queried"
                  /\ ret' = [kind |-> "indeterminate", opt |-> opt]
                  /\ UNCHANGED <<exit_code, output>>
               \/ /\ phase' = "exit"
                  /\ exit_code' = 139
                  /\ output' = "Segmentation fault"
                  /\ ret' = [kind |-> "noreturn", opt |-> opt]
    /\ UNCHANGED <<scn, pcreg, parsers, optheap, stream, stack, fate, calls,
                   nprog, nparse, used, released>>

\* map_free: the distinct values of the map in the order of their first entry,
\* which is the order in which free_cb is called on them.
RECURSIVE MapFreeLoop(_, _, _)
MapFreeLoop(map, i, freed_values) ==
    IF i > Len(map) THEN freed_values
    ELSE IF \E j \in 1..Len(freed_values) : freed_values[j] = map[i].value
         THEN MapFreeLoop(map, i + 1, freed_values)
         ELSE MapFreeLoop(map, i + 1, Append(freed_values, map[i].value))

\* map_free, had it kept no list of the values already freed.
map_free_NoDedup(map) == [i \in 1..Len(map) |-> map[i].value]

map_free(map) == MapFreeLoop(map, 1, <<>>)

Released(kind, ptr) == [kind |-> kind, ptr |-> ptr]

\* argparser_free(parser): what it releases, in order.  The options map frees
\* its values with option_free_cb, the commands map with argparser_free_cb, the
\* callbacks map has no free callback.
RECURSIVE argparser_free(_, _)
RECURSIVE FreeCommands(_, _, _)
FreeCommands(heap, cmds, i) ==
    IF i > Len(cmds) THEN <<>>
    ELSE argparser_free(heap, cmds[i]) \o FreeCommands(heap, cmds, i + 1)

argparser_free(heap, p) ==
    LET opts == map_free(heap[p].options) IN
    [i \in 1..Len(opts) |-> Released("option", opts[i])]
    \o FreeCommands(heap, map_free(heap[p].commands), 1)
    \o <<Released("arglist", p), Released("parser", p)>>

ap_free ==
    /\ phase \in {"reg", "done", "post", "queried"}
    /\ ~IsDemo
    /\ phase' = "freed"
    /\ released' = argparser_free(parsers, 1)
    /\ UNCHANGED <<scn, pcreg, parsers, optheap, stream, stack, exit_code, output, fate,
                   calls, nprog, nparse, used, ret>>

-----------------------------------------------------------------------------
(* The demo program.                                                         *)

\* ip_show(ap): the command line it hands to system().
ip_show(ap) ==
    IF argparser_has_args(ap) THEN <<"ifconfig", ap.arguments[1]>> ELSE <<"ifconfig">>

\* main, had it called ap_free before the test of ap_has_cmd.
main_FreeFirst ==
    /\ IsDemo
    /\ phase = "done"
    /\ released' = argparser_free(parsers, 1)
    /\ IF ~argparser_has_cmd(parsers[1])
       THEN phase' = "exit" /\ exit_code' = 1 /\ output' = "Missing cmd"
       ELSE phase' = "freed" /\ UNCHANGED <<exit_code, output>>
    /\ UNCHANGED <<scn, pcreg, parsers, optheap, stream, stack, fate, calls,
                   nprog, nparse, used, ret>>

\* main from the return of ap_parse on: errx(1, "Missing cmd") if no command
\* was found, else ap_free(ap) and return 0.
main ==
    /\ IsDemo
    /\ phase = "done"
    /\ IF ~argparser_has_cmd(parsers[1])
       THEN phase' = "exit" /\ exit_code' = 1 /\ output' = "Missing cmd"
            /\ UNCHANGED released
       ELSE phase' = "freed" /\ released' = argparser_free(parsers, 1)
            /\ UNCHANGED <<exit_code, output>>
    /\ UNCHANGED <<scn, pcreg, parsers, optheap, stream, stack, fate, calls,
                   nprog, nparse, used, ret>>

-----------------------------------------------------------------------------

Next ==
    \/ argparser_add_flag
    \/ argparser_add_str
    \/ argparser_add_int
    \/ argparser_add_str_list
    \/ argparser_add_cmd
    \/ ap_parse
    \/ ParseVerbatim
    \/ ParseTerminator
    \/ ParseLongOption
    \/ ParseDash
    \/ ParseShortOption
    \/ ParseCommand
    \/ CallCallback
    \/ ParseHelp
    \/ ParsePositional
    \/ ParseReturn
    \/ argparser_clear_list
    \/ argparser_set_flag
    \/ argparser_set_str
    \/ argparser_set_int
    \/ ap_get_args_as_ints
    \/ ap_get
    \/ ap_free
    \/ main

Spec == Init /\ [][Next]_vars

-----------------------------------------------------------------------------
(* Vocabulary of the properties.                                             *)

Root == 1

Args == stream.args

\* Token i was fetched by the loop of node n (not read by an option handler as a
\* value, nor by the help command as its argument).
ReadByLoop(i, n) ==
    /\ fate[i].node = n
    /\ fate[i].kind \in {"positional", "terminator", "option", "command", "help"}

\* Node n is node a or a command parser below it.
RECURSIVE IsDescendant(_, _)
IsDescendant(n, a) ==
    IF n = NULL THEN FALSE
    ELSE IF n = a THEN TRUE
    ELSE IsDescendant(parsers[n].parent, a)

\* The tokens among the first upto that node n took as positional arguments.
RECURSIVE PositionalsOf(_, _)
PositionalsOf(n, upto) ==
    IF upto = 0 THEN <<>>
    ELSE IF fate[upto].node = n /\ fate[upto].kind = "positional"
         THEN Append(PositionalsOf(n, upto - 1), Args[upto])
         ELSE PositionalsOf(n, upto - 1)

\* A single dash, or a dash followed by a digit.
IsDashOrNumber(t) == CharAt(t, 0) = "-" /\ (strlen(t) = 1 \/ isdigit(CharAt(t, 1)))

\* The token t alone would pass argstream_has_next_value.
ValueShaped(t) == argstream_has_next_value(argstream_new(1, <<t>>))

\* The value the token t was appended as to option o.
AppendedTo(o, t) ==
    IF optheap[o].type = "INTEGER"
    THEN try_str_to_int(t).ok /\ try_str_to_int(t).val \in Range(optheap[o].values)
    ELSE t \in Range(optheap[o].values)

-----------------------------------------------------------------------------
(* C1 *)

\* C1: when the first ap_parse has returned and the root's loop had fetched, with option
\* parsing enabled, a non-option token that is a registered command name, the
\* root reports that command (has-command, its name, its parser), every later
\* token was read by the command's parser or one below it, and the root's
\* positional list holds only tokens from before the command.  For
\* `push --force file.txt` the child's force flag is true and found, its
\* positional list is [file.txt] and the root's is empty.
C1_CommandTakesRest ==
    (phase = "done" /\ nparse = 1) =>
       /\ \A i \in 1..Len(fate) :
             ( /\ ReadByLoop(i, Root)
               /\ fate[i].parsing
               /\ CharAt(Args[i], 0) # "-"
               /\ map_contains(parsers[Root].commands, Args[i]) )
             => /\ argparser_has_cmd(parsers[Root])
                /\ argparser_get_cmd_name(parsers[Root]) = StrPtr(Args[i])
                /\ argparser_get_cmd_parser(parsers[Root]) = map_get(parsers[Root].commands, Args[i])
                /\ \A j \in (i + 1)..Len(fate) :
                      /\ fate[j].node # Root
                      /\ IsDescendant(fate[j].node, parsers[Root].cmd_parser)
                /\ parsers[Root].arguments = PositionalsOf(Root, i - 1)
       /\ ( /\ Args = <<s_push, Long(s_force), s_file>>
            /\ map_contains(parsers[Root].commands, s_push)
            /\ map_contains(parsers[map_get(parsers[Root].commands, s_push)].options, s_force) )
          => LET child == parsers[map_get(parsers[Root].commands, s_push)] IN
             /\ argparser_get_cmd_name(parsers[Root]) = StrPtr(s_push)
             /\ argparser_found(child, s_force, optheap)
             /\ argparser_get(child, s_force, optheap) = TRUE
             /\ child.arguments = <<s_file>>
             /\ parsers[Root].arguments = <<>>

C1_Witness ==
    /\ phase = "done"
    /\ nparse = 1
    /\ Args = <<s_push, Long(s_force), s_file>>
    /\ parsers[Root].cmd_name = StrPtr(s_push)
    /\ Len(parsers) = 2
    /\ parsers[2].arguments = <<s_file>>

-----------------------------------------------------------------------------
(* C2 *)

\* C2: a step that reads `--` with option parsing enabled stores nothing (no
\* parser and no option changes) and only disables option parsing; every step
\* of that node's loop from then on appends exactly the token at the cursor,
\* verbatim, to that node's positional list and changes no option, no found
\* flag, no matched command and no other list.
C2_AfterTerminator ==
    [][ /\ (InLoop /\ Top.parsing /\ argstream_peek(stream) = s_dashdash)
           => /\ parsers' = parsers
              /\ optheap' = optheap
              /\ stream' = [stream EXCEPT !.index = @ + 1]
              /\ stack' = [stack EXCEPT ![Len(stack)].parsing = FALSE]
              /\ phase' = "parse"
        /\ (InLoop /\ ~Top.parsing)
           => /\ parsers' = [parsers EXCEPT ![Top.parser].arguments =
                                 Append(@, Args[stream.index + 1])]
              /\ optheap' = optheap
              /\ stream' = [stream EXCEPT !.index = @ + 1]
              /\ stack' = stack
              /\ phase' = "parse"
      ]_vars

C2_Witness ==
    /\ phase = "done"
    /\ Args = <<s_dashdash, s_push, s_dashdash, Long(s_force)>>
    /\ parsers[Root].arguments = <<s_push, s_dashdash, Long(s_force)>>
    /\ ~argparser_has_cmd(parsers[Root])

-----------------------------------------------------------------------------
(* C3 *)

\* C3 as stated: every `-` or `-<digit>` token that a parse has read was
\* appended as an option's value or to a positional list.
C3_Original ==
    \A i \in 1..Len(fate) :
        (IsDashOrNumber(Args[i]) /\ fate[i].kind # "unread")
        => fate[i].kind \in {"positional", "value"}

\* C3, amended: a `-` or `-<digit>` token is never handled as an option (its
\* characters are never looked up as option names), and when the parse returns
\* normally each such token was appended to the positional list of the node
\* that read it or appended, as a value, to the option that read it.
C3_DashNeverOption ==
    \A i \in 1..Len(fate) :
        IsDashOrNumber(Args[i])
        => /\ fate[i].kind # "option"
           /\ phase = "done"
              => \/ /\ fate[i].kind = "positional"
                    /\ Args[i] \in Range(parsers[fate[i].node].arguments)
                 \/ /\ fate[i].kind = "value"
                    /\ AppendedTo(fate[i].opt, Args[i])

C3_Witness ==
    /\ phase = "done"
    /\ \E i, j \in 1..Len(fate) :
          /\ IsDashOrNumber(Args[i]) /\ fate[i].kind = "value"
          /\ IsDashOrNumber(Args[j]) /\ fate[j].kind = "positional"

-----------------------------------------------------------------------------
(* C4 *)

\* The value option_try_set appends for the token t to an option of this type.
Coerced(type, t) == IF type = "INTEGER" THEN try_str_to_int(t).val ELSE t

Coercible(type, t) == type = "INTEGER" => try_str_to_int(t).ok

\* The token t is handled as a short option by a loop with parsing enabled.
IsShortToken(t) ==
    CharAt(t, 0) = "-" /\ ~HasPrefix(t, s_dashdash) /\ ~IsDashOrNumber(t)

\* The option of parser p that the one-character key c names.
ShortOpt(p, c) == map_get(parsers[p].options, <<c>>)

\* The bundle b, on parser p, is a run of registered flags followed by one last
\* registered option that is neither a flag nor greedy.
FlagsThenValue(p, b) ==
    /\ strlen(b) >= 1
    /\ strchr(b, "=") = -1
    /\ \A k \in 1..Len(b) : ShortOpt(p, b[k]) # NULL
    /\ \A k \in 1..(Len(b) - 1) : optheap[ShortOpt(p, b[k])].type = "FLAG"
    /\ optheap[ShortOpt(p, b[Len(b)])].type # "FLAG"
    /\ ~optheap[ShortOpt(p, b[Len(b)])].greedy

\* C4: a step of the loop on a short bundle of flags that ends in a one-valued
\* option, followed by a value-shaped (and coercible) token, makes every flag
\* of the bundle found and true, makes the last option found, appends exactly
\* the next token to it and leaves the cursor right after that token.  After
\* `-abc val1 val2` the flags a and b are true, c holds val1 and the positional
\* list is [val2] (in the first parse after registration).
C4_BundleEndingInValue ==
    /\ [][ ( /\ InLoop
             /\ Top.parsing
             /\ IsShortToken(argstream_peek(stream))
             /\ FlagsThenValue(Top.parser, StrFrom(argstream_peek(stream), 1))
             /\ argstream_has_next_value(argstream_next(stream).stream)
             /\ LET b == StrFrom(argstream_peek(stream), 1) IN
                Coercible(optheap[ShortOpt(Top.parser, b[Len(b)])].type,
                          Args[stream.index + 2]) )
           => LET b == StrFrom(argstream_peek(stream), 1)
                  o == ShortOpt(Top.parser, b[Len(b)])
              IN  /\ phase' = "parse"
                  /\ stream' = [stream EXCEPT !.index = @ + 2]
                  /\ parsers' = parsers
                  /\ \A k \in 1..(Len(b) - 1) :
                        /\ optheap'[ShortOpt(Top.parser, b[k])].found
                        /\ option_get(optheap'[ShortOpt(Top.parser, b[k])]) = TRUE
                  /\ optheap'[o] = [optheap[o] EXCEPT
                        !.found = TRUE,
                        !.values = Append(@, Coerced(optheap[o].type, Args[stream.index + 2]))]
         ]_vars
    /\ []( ( /\ phase = "done"
             /\ nparse = 1
             /\ Args = <<<<"-", "a", "b", "c">>, s_val1, s_val2>>
             /\ FlagsThenValue(Root, <<"a", "b", "c">>) )
           => /\ argparser_found(parsers[Root], <<"a">>, optheap)
              /\ argparser_get(parsers[Root], <<"a">>, optheap) = TRUE
              /\ argparser_found(parsers[Root], <<"b">>, optheap)
              /\ argparser_get(parsers[Root], <<"b">>, optheap) = TRUE
              /\ argparser_found(parsers[Root], <<"c">>, optheap)
              /\ argparser_get(parsers[Root], <<"c">>, optheap) = s_val1
              /\ parsers[Root].arguments = <<s_val2>> )

C4_Witness ==
    /\ phase = "done"
    /\ nparse = 1
    /\ Args = <<<<"-", "a", "b", "c">>, s_val1, s_val2>>
    /\ FlagsThenValue(Root, <<"a", "b", "c">>)
    /\ parsers[Root].arguments = <<s_val2>>

-----------------------------------------------------------------------------
(* C5 *)

\* Value tokens the two forms are compared on.
TestValues ==
    {s_val1, <<"5">>, s_neg5, s_dash, <<>>, <<"-", "x">>, <<"-", "-">>, <<"a", "=", "b">>}

\* The handler's result for the single token --name=v, and for the two tokens
\* --name v, from the option state opts.
EqualsForm(p, name, v, opts) ==
    argparser_parse_long_option(parsers[p], Eq(name, v), opts, argstream_new(0, <<>>))

TwoTokenForm(p, name, v, opts) ==
    argparser_parse_long_option(parsers[p], name, opts, argstream_new(1, <<v>>))

\* Same outcome (return, or exit with the same status) and same state of option o.
SameResult(a, b, o) ==
    /\ a.exited = b.exited
    /\ a.code = b.code
    /\ a.opts[o].found = b.opts[o].found
    /\ a.opts[o].values = b.opts[o].values

\* The keys of parser p that name an option that is neither a flag nor greedy.
PlainOptionKeys(p) ==
    {k \in Keys(parsers[p].options) :
        /\ strchr(k, "=") = -1
        /\ optheap[map_get(parsers[p].options, k)].type # "FLAG"
        /\ ~optheap[map_get(parsers[p].options, k)].greedy}

\* C5 as stated: for any value token v the two forms agree.
C5_Original ==
    \A p \in DOMAIN parsers : \A name \in PlainOptionKeys(p) : \A v \in TestValues :
        SameResult(EqualsForm(p, name, v, optheap), TwoTokenForm(p, name, v, optheap),
                   map_get(parsers[p].options, name))

\* C5, amended: from every reachable option state, for every registered option
\* that is neither a flag nor greedy and every value token v that is non-empty
\* and value-shaped, --name=v and --name v end the same way (both return, or
\* both exit with the same status) and leave the option with the same found
\* flag and the same values.
C5_EqualsFormEquivalent ==
    \A p \in DOMAIN parsers : \A name \in PlainOptionKeys(p) : \A v \in TestValues :
        (v # <<>> /\ ValueShaped(v))
        => SameResult(EqualsForm(p, name, v, optheap), TwoTokenForm(p, name, v, optheap),
                      map_get(parsers[p].options, name))

C5_Witness ==
    /\ phase = "done"
    /\ Args = <<Long(s_name), s_val1, Long(Eq(s_name, s_val1))>>
    /\ argparser_get_list(parsers[Root], s_name, optheap) = <<<<"d">>, s_val1, s_val1>>

-----------------------------------------------------------------------------
(* C6 *)

\* The long option token t names, on parser p, a registered greedy option.
IsGreedyLong(p, t) ==
    /\ HasPrefix(t, s_dashdash)
    /\ t # s_dashdash
    /\ strchr(t, "=") = -1
    /\ map_contains(parsers[p].options, StrFrom(t, 2))
    /\ optheap[map_get(parsers[p].options, StrFrom(t, 2))].type # "FLAG"
    /\ optheap[map_get(parsers[p].options, StrFrom(t, 2))].greedy

\* Tokens from..to of the argument vector are value-shaped and coerce to type.
ValueRun(type, from, to) ==
    \A j \in from..to : ValueShaped(Args[j]) /\ Coercible(type, Args[j])

CoercedRun(type, from, to) == [j \in 1..(to - from + 1) |-> Coerced(type, Args[from + j - 1])]

\* C6: a step of the loop on a greedy option followed by k >= 1 value-shaped
\* tokens and then `--` appends exactly those k tokens to the option and leaves
\* the cursor on the `--`, which it did not consume.  After a parse of
\* `--name t1..tk -- rest` on a list that was empty, the list is [t1..tk] and
\* the positional list is rest (`--tags x y z -- w`: tags = [x,y,z], positionals = [w]).
C6_GreedyStopsAtTerminator ==
    /\ [][ \A k \in 1..Len(Args) :
             ( /\ InLoop
               /\ Top.parsing
               /\ IsGreedyLong(Top.parser, argstream_peek(stream))
               /\ stream.index + 2 + k <= stream.len
               /\ Args[stream.index + 2 + k] = s_dashdash
               /\ ValueRun(optheap[map_get(parsers[Top.parser].options,
                                           StrFrom(argstream_peek(stream), 2))].type,
                           stream.index + 2, stream.index + 1 + k) )
             => LET o == map_get(parsers[Top.parser].options,
                                 StrFrom(argstream_peek(stream), 2))
                IN  /\ phase' = "parse"
                    /\ parsers' = parsers
                    /\ stream' = [stream EXCEPT !.index = @ + 1 + k]
                    /\ optheap'[o].found
                    /\ optheap'[o].values =
                          optheap[o].values \o
                          CoercedRun(optheap[o].type, stream.index + 2, stream.index + 1 + k)
         ]_vars
    /\ []( \A k \in 1..Len(Args) :
             ( /\ phase = "done"
               /\ nprog = 0
               /\ nparse = 1
               /\ Len(Args) >= k + 2
               /\ IsGreedyLong(Root, Args[1])
               /\ Args[k + 2] = s_dashdash
               /\ ValueRun(optheap[map_get(parsers[Root].options, StrFrom(Args[1], 2))].type,
                           2, k + 1) )
             => /\ argparser_get_list(parsers[Root], StrFrom(Args[1], 2), optheap) =
                      CoercedRun(optheap[map_get(parsers[Root].options,
                                                 StrFrom(Args[1], 2))].type, 2, k + 1)
                /\ parsers[Root].arguments = SubSeq(Args, k + 3, Len(Args))
                /\ fate[k + 2].kind = "terminator" )

C6_Witness ==
    /\ phase = "done"
    /\ nparse = 1
    /\ Args = <<Long(s_tags), <<"x">>, <<"y">>, <<"z">>, s_dashdash, <<"w">>>>
    /\ argparser_get_list(parsers[Root], s_tags, optheap) = <<<<"x">>, <<"y">>, <<"z">>>>
    /\ parsers[Root].arguments = <<<<"w">>>>

-----------------------------------------------------------------------------
(* C7 *)

IsOptionCall(c) == c.op # "add_cmd"

\* The keys the name string of call c is split into.
CallKeys(c) == Range(SplitKeys(c.name, 0, <<>>))

\* No earlier call of the script bound one of the keys of call i on its parser.
FreshKeys(i) ==
    \A j \in 1..(i - 1) :
        (IsOptionCall(Script[j]) /\ Script[j].parser = Script[i].parser)
        => CallKeys(Script[j]) \cap CallKeys(Script[i]) = {}

\* The default the call c gives its scalar option.
DefaultOf(c) ==
    IF c.op = "add_flag" THEN FALSE ELSE IF c.op = "add_str" THEN c.sval ELSE c.ival

\* Nothing but registrations, and possibly a parse of zero tokens, has happened.
OnlyRegistered ==
    /\ nprog = 0
    /\ \/ phase = "reg"
       \/ phase = "done" /\ nparse = 1 /\ stream.len = 0

\* C7: after any sequence of registrations, before a parse and after a parse
\* of zero tokens, every scalar option reads as the default of its
\* registration (false for a flag) through each of its keys, every list option
\* has length 0, no option is found, every positional list is empty and no
\* node has a command.
C7_DefaultsAfterRegistration ==
    OnlyRegistered =>
        /\ \A i \in 1..pcreg :
              (IsOptionCall(Script[i]) /\ FreshKeys(i)) =>
                 \A k \in CallKeys(Script[i]) :
                    /\ map_contains(parsers[Script[i].parser].options, k)
                    /\ ~argparser_found(parsers[Script[i].parser], k, optheap)
                    /\ IF Script[i].op = "add_str_list"
                       THEN argparser_len_list(parsers[Script[i].parser], k, optheap) = 0
                       ELSE /\ argparser_len_list(parsers[Script[i].parser], k, optheap) = 1
                            /\ argparser_get(parsers[Script[i].parser], k, optheap)
                                  = DefaultOf(Script[i])
        /\ \A o \in DOMAIN optheap : ~optheap[o].found
        /\ \A p \in DOMAIN parsers :
              /\ ~argparser_has_args(parsers[p])
              /\ parsers[p].arguments = <<>>
              /\ ~argparser_has_cmd(parsers[p])

C7_Witness ==
    /\ phase = "done"
    /\ nparse = 1
    /\ stream.len = 0
    /\ nprog = 0
    /\ pcreg = Len(Script)
    /\ \E i \in 1..pcreg :
          /\ Script[i].op = "add_int"
          /\ Script[i].ival # 0
          /\ argparser_get(parsers[Script[i].parser], Script[i].name, optheap) = Script[i].ival

-----------------------------------------------------------------------------
(* C8 *)

\* C8: in every state (during and after a parse, after set and clear-list
\* calls through any key), all the keys of one registration are bound, to one
\* and the same option, and the found flag, the list length, the list contents
\* and the current value read through any two of them are identical.
C8_AliasesDenoteOneOption ==
    \A i \in 1..pcreg :
        (IsOptionCall(Script[i]) /\ FreshKeys(i)) =>
           \A k1 \in CallKeys(Script[i]) : \A k2 \in CallKeys(Script[i]) :
              /\ map_contains(parsers[Script[i].parser].options, k1)
              /\ map_contains(parsers[Script[i].parser].options, k2)
              /\ argparser_get_opt(parsers[Script[i].parser], k1)
                    = argparser_get_opt(parsers[Script[i].parser], k2)
              /\ argparser_found(parsers[Script[i].parser], k1, optheap)
                    = argparser_found(parsers[Script[i].parser], k2, optheap)
              /\ argparser_len_list(parsers[Script[i].parser], k1, optheap)
                    = argparser_len_list(parsers[Script[i].parser], k2, optheap)
              /\ argparser_get_list(parsers[Script[i].parser], k1, optheap)
                    = argparser_get_list(parsers[Script[i].parser], k2, optheap)
              /\ argparser_len_list(parsers[Script[i].parser], k1, optheap) > 0
                    => argparser_get(parsers[Script[i].parser], k1, optheap)
                          = argparser_get(parsers[Script[i].parser], k2, optheap)

\* Parsed through one alias, set through the other, read through both.
C8_Witness ==
    /\ phase = "post"
    /\ nprog = 1
    /\ Args = <<Short(<<"v">>), Long(s_out), s_val1>>
    /\ map_contains(parsers[Root].options, s_verbose)
    /\ map_contains(parsers[Root].options, <<"o">>)
    /\ argparser_found(parsers[Root], s_verbose, optheap)
    /\ argparser_get_list(parsers[Root], s_verbose, optheap) = <<FALSE, TRUE, FALSE>>
    /\ argparser_get_list(parsers[Root], <<"o">>, optheap) = <<s_val1>>

-----------------------------------------------------------------------------
(* C9 *)

\* The loop is about to read the token `help` with option parsing enabled,
\* `help` is not a registered command and another token follows.
AtHelpCommand ==
    /\ InLoop
    /\ Top.parsing
    /\ argstream_peek(stream) = s_help
    /\ ~map_contains(parsers[Top.parser].commands, s_help)
    /\ stream.index + 2 <= stream.len

-----------------------------------------------------------------------------
(* C10 *)

\* The loop is about to read a long option token that has no `=`.
AtLongOption ==
    /\ InLoop
    /\ Top.parsing
    /\ HasPrefix(argstream_peek(stream), s_dashdash)
    /\ argstream_peek(stream) # s_dashdash
    /\ strchr(argstream_peek(stream), "=") = -1

\* C10: on a long option token, a registered name (`help` and `version`
\* included) is handled as that option: the option becomes found, a flag gets
\* true and the parse goes on, and the only exit is a fatal one.  Otherwise
\* --help on a node with help text exits with status 0 printing it; otherwise
\* --version on a node with version text exits with status 0 printing it;
\* otherwise the step is the fatal error 'not a recognised option', status 1.
C10_LongOptionPrecedence ==
    [][ AtLongOption =>
          LET parser == parsers[Top.parser]
              name   == StrFrom(argstream_peek(stream), 2)
              o      == map_get(parser.options, name)
          IN  IF map_contains(parser.options, name)
              THEN /\ optheap'[o].found
                   /\ phase' = "exit" => exit_code' = 1
                   /\ optheap[o].type = "FLAG" =>
                         /\ phase' = "parse"
                         /\ optheap'[o].values = Append(optheap[o].values, TRUE)
                         /\ stream' = [stream EXCEPT !.index = @ + 1]
              ELSE IF name = s_help /\ parser.helptext # NULLSTR
              THEN phase' = "exit" /\ exit_code' = 0 /\ output' = parser.helptext[1]
              ELSE IF name = s_version /\ parser.version # NULLSTR
              THEN phase' = "exit" /\ exit_code' = 0 /\ output' = parser.version[1]
              ELSE /\ phase' = "exit"
                   /\ exit_code' = 1
                   /\ output' = "not a recognised option"
                   /\ optheap' = optheap
      ]_vars

\* --help on a node with help text and a registered flag named help.
C10_Witness ==
    /\ phase = "done"
    /\ Args = <<Long(s_help)>>
    /\ parsers[Root].helptext # NULLSTR
    /\ map_contains(parsers[Root].options, s_help)
    /\ argparser_found(parsers[Root], s_help, optheap)
    /\ argparser_get(parsers[Root], s_help, optheap) = TRUE

-----------------------------------------------------------------------------
(* C11 *)

\* The number of consecutive value-shaped tokens of the stream from Args[from] on.
RECURSIVE ValueRunLen(_)
ValueRunLen(from) ==
    IF from <= stream.len /\ ValueShaped(Args[from]) THEN 1 + ValueRunLen(from + 1) ELSE 0

\* The loop is about to read a long option token, without `=`, whose name is registered.
AtRegisteredLong ==
    /\ AtLongOption
    /\ map_contains(parsers[Top.parser].options, StrFrom(argstream_peek(stream), 2))

\* C11: the step on a registered long option.  A flag consumes the option
\* token only, becomes found and gets true appended.  Another option, when the
\* next token is value-shaped, becomes found and consumes exactly that token
\* (if greedy: exactly the run of value-shaped tokens that follows), appending
\* the coerced values in order; a value that does not coerce is a fatal error.
\* When the stream is exhausted or the next token is not value-shaped the step
\* is the fatal 'missing argument' error with status 1 and appends nothing.
\* No other option and no parser changes, and no step follows an exit.
C11_RegisteredLongOption ==
    /\ [][ AtRegisteredLong =>
             LET o    == map_get(parsers[Top.parser].options,
                                 StrFrom(argstream_peek(stream), 2))
                 from == stream.index + 2
                 take == IF optheap[o].greedy THEN ValueRunLen(from) ELSE 1
             IN  /\ parsers' = parsers
                 /\ \A q \in DOMAIN optheap : q # o => optheap'[q] = optheap[q]
                 /\ IF optheap[o].type = "FLAG"
                    THEN /\ phase' = "parse"
                         /\ stream' = [stream EXCEPT !.index = @ + 1]
                         /\ optheap'[o] = [optheap[o] EXCEPT !.found = TRUE,
                                                             !.values = Append(@, TRUE)]
                    ELSE IF ValueRunLen(from) = 0
                    THEN /\ phase' = "exit"
                         /\ exit_code' = 1
                         /\ output' = "missing argument"
                         /\ optheap'[o].values = optheap[o].values
                    ELSE IF ValueRun(optheap[o].type, from, from + take - 1)
                    THEN /\ phase' = "parse"
                         /\ stream' = [stream EXCEPT !.index = @ + 1 + take]
                         /\ optheap'[o] =
                               [optheap[o] EXCEPT
                                  !.found = TRUE,
                                  !.values = @ \o CoercedRun(optheap[o].type, from,
                                                             from + take - 1)]
                    ELSE phase' = "exit" /\ exit_code' = 1
         ]_vars
    /\ [][phase # "exit"]_vars

C11_Witness ==
    /\ phase = "exit"
    /\ exit_code = 1
    /\ output = "missing argument"
    /\ stream.index >= 1
    /\ Args[stream.index] = Long(s_name)
    /\ stream.index < stream.len
    /\ map_contains(parsers[Root].options, s_name)

-----------------------------------------------------------------------------
(* C12 *)

\* The loop is about to read an option token (long or short) that contains `=`.
AtEqualsOption ==
    /\ InLoop
    /\ Top.parsing
    /\ CharAt(argstream_peek(stream), 0) = "-"
    /\ argstream_peek(stream) # s_dashdash
    /\ ~IsDashOrNumber(argstream_peek(stream))
    /\ strchr(argstream_peek(stream), "=") # -1

\* The token at the cursor without its -- or - prefix.
OptionText ==
    IF HasPrefix(argstream_peek(stream), s_dashdash)
    THEN StrFrom(argstream_peek(stream), 2)
    ELSE StrFrom(argstream_peek(stream), 1)

\* C12: the step on an option token with `=` splits it at the first `=`.  It
\* is a fatal error (status 1) that appends no value when the key is not
\* registered, names a flag, or the value is empty (and when the value does
\* not coerce); otherwise exactly the text after the first `=` is coerced and
\* appended, once, to the option the key names, which becomes found, and only
\* the option token is consumed.
C12_EqualsForm ==
    [][ AtEqualsOption =>
          LET key   == StrUpto(OptionText, strchr(OptionText, "="))
              value == StrFrom(OptionText, strchr(OptionText, "=") + 1)
              o     == map_get(parsers[Top.parser].options, key)
          IN  /\ parsers' = parsers
              /\ IF \/ ~map_contains(parsers[Top.parser].options, key)
                    \/ optheap[o].type = "FLAG"
                    \/ value = <<>>
                    \/ ~Coercible(optheap[o].type, value)
                 THEN /\ phase' = "exit"
                      /\ exit_code' = 1
                      /\ \A q \in DOMAIN optheap : optheap'[q].values = optheap[q].values
                 ELSE /\ phase' = "parse"
                      /\ stream' = [stream EXCEPT !.index = @ + 1]
                      /\ optheap' = [optheap EXCEPT
                            ![o] = [@ EXCEPT !.found = TRUE,
                                             !.values = Append(@, Coerced(optheap[o].type,
                                                                          value))]]
      ]_vars

C12_Witness ==
    /\ phase = "done"
    /\ nparse = 1
    /\ Args = <<Long(Eq(s_name, <<"a", "=", "b">>)), Long(Eq(s_tags, <<"x">>)), <<"y">>>>
    /\ argparser_get_list(parsers[Root], s_name, optheap) = <<<<"d">>, <<"a", "=", "b">>>>
    /\ argparser_get_list(parsers[Root], s_tags, optheap) = <<<<"x">>>>
    /\ parsers[Root].arguments = <<<<"y">>>>

-----------------------------------------------------------------------------
(* C13 *)

\* This step is a call of the integer-list accessor on the positional arguments.
IsIntsQuery ==
    /\ CanQuery
    /\ ret' # ret
    /\ ret'.kind = "ints" \/ (ret'.kind = "noreturn" /\ "failed" \in DOMAIN ret')

\* C13: a call of the integer-list accessor on a parser returns, when every
\* positional argument coerces, one integer per argument in positional order
\* (["10","20"] gives [10,20]); otherwise it returns nothing and the process
\* exits with status 1 at the first argument that does not coerce.
C13_ArgsAsInts ==
    [][ IsIntsQuery =>
          LET arguments == parsers[ret'.parser].arguments IN
          IF \A i \in 1..Len(arguments) : try_str_to_int(arguments[i]).ok
          THEN /\ ret'.kind = "ints"
               /\ phase' = "queried"
               /\ Len(ret'.val) = Len(arguments)
               /\ \A i \in 1..Len(arguments) : ret'.val[i] = try_str_to_int(arguments[i]).val
               /\ arguments = <<<<"1", "0">>, <<"2", "0">>>> => ret'.val = <<10, 20>>
          ELSE /\ ret'.kind = "noreturn"
               /\ phase' = "exit"
               /\ exit_code' = 1
               /\ ret'.failed \in 1..Len(arguments)
               /\ ~try_str_to_int(arguments[ret'.failed]).ok
               /\ \A i \in 1..(ret'.failed - 1) : try_str_to_int(arguments[i]).ok
      ]_vars

C13_Witness ==
    /\ phase = "queried"
    /\ ret.kind = "ints"
    /\ parsers[ret.parser].arguments = <<<<"1", "0">>, <<"2", "0">>>>
    /\ ret.val = <<10, 20>>

-----------------------------------------------------------------------------
(* C14 *)

\* The loop is about to read a short option bundle (no `=`).
AtShortBundle ==
    /\ InLoop
    /\ Top.parsing
    /\ IsShortToken(argstream_peek(stream))
    /\ strchr(argstream_peek(stream), "=") = -1

\* C14: an option is registered with found = false; the step that matches it
\* on the command line as a long option, in the `=` form, or as a character of
\* a short bundle that is parsed through, makes found true; and no step of any
\* operation (a further parse, a programmatic set, clear-list, a query) makes
\* a true found flag false again.
C14_FoundIsSticky ==
    /\ [][ \A o \in DOMAIN optheap' :
              IF o \in DOMAIN optheap
              THEN optheap[o].found => optheap'[o].found
              ELSE ~optheap'[o].found ]_vars
    /\ [][ AtRegisteredLong =>
              optheap'[map_get(parsers[Top.parser].options,
                               StrFrom(argstream_peek(stream), 2))].found ]_vars
    /\ [][ ( /\ AtEqualsOption
             /\ map_contains(parsers[Top.parser].options,
                             StrUpto(OptionText, strchr(OptionText, "="))) )
           => optheap'[map_get(parsers[Top.parser].options,
                               StrUpto(OptionText, strchr(OptionText, "=")))].found ]_vars
    /\ [][ (AtShortBundle /\ phase' = "parse") =>
              \A k \in 1..Len(OptionText) :
                 /\ ShortOpt(Top.parser, OptionText[k]) # NULL
                 /\ optheap'[ShortOpt(Top.parser, OptionText[k])].found ]_vars

\* Matched in a first parse, cleared by the program, and parsed again.
C14_Witness ==
    /\ phase = "done"
    /\ nparse = 2
    /\ nprog = 1
    /\ \E o \in DOMAIN optheap : optheap[o].found /\ optheap[o].values = <<>>

-----------------------------------------------------------------------------
(* C15 *)

IsScalarCall(c) == c.op \in {"add_flag", "add_str", "add_int"}

\* C15, as stated: in every reachable state the value sequence of every
\* scalar option (read through each of its keys) is non-empty.
C15_ScalarNeverEmpty ==
    \A i \in 1..pcreg :
        (IsScalarCall(Script[i]) /\ FreshKeys(i)) =>
           \A k \in CallKeys(Script[i]) :
              argparser_len_list(parsers[Script[i].parser], k, optheap) > 0

-----------------------------------------------------------------------------
(* C16 *)

\* C16, as stated: a scalar get on an option whose value sequence is empty
\* does not return a value.
C16_EmptyGetFails ==
    [][ ( /\ CanQuery
          /\ ret' # ret
          /\ "opt" \in DOMAIN ret'
          /\ optheap[ret'.opt].values = <<>> )
        => ret'.kind = "noreturn" /\ phase' = "exit" ]_vars

-----------------------------------------------------------------------------
(* C17 *)

\* C17: the scalar getter returns the value appended last.  After the step
\* that matches an option on the command line (long option, `=` form, flag of
\* a short bundle, last option of a bundle with its value) the getter returns
\* that occurrence's value, whatever default, earlier occurrences or
\* programmatically set values the option held; after a programmatic set of a
\* string option it returns the set value, whatever the command line gave;
\* with no occurrence and no programmatic call it returns the default; of two
\* occurrences in one parse the later one wins.
C17_GetterReturnsLastAppended ==
    /\ [][ (AtRegisteredLong /\ phase' = "parse") =>
              LET o == map_get(parsers[Top.parser].options,
                               StrFrom(argstream_peek(stream), 2))
              IN  option_get(optheap'[o]) =
                     IF optheap[o].type = "FLAG" THEN TRUE
                     ELSE Coerced(optheap[o].type, Args[stream'.index]) ]_vars
    /\ [][ (AtEqualsOption /\ phase' = "parse") =>
              LET o == map_get(parsers[Top.parser].options,
                               StrUpto(OptionText, strchr(OptionText, "=")))
              IN  option_get(optheap'[o]) =
                     Coerced(optheap[o].type,
                             StrFrom(OptionText, strchr(OptionText, "=") + 1)) ]_vars
    /\ [][ (AtShortBundle /\ phase' = "parse") =>
              /\ \A k \in 1..Len(OptionText) :
                    optheap[ShortOpt(Top.parser, OptionText[k])].type = "FLAG"
                    => option_get(optheap'[ShortOpt(Top.parser, OptionText[k])]) = TRUE
              /\ FlagsThenValue(Top.parser, OptionText)
                    => LET o == ShortOpt(Top.parser, OptionText[Len(OptionText)])
                       IN  option_get(optheap'[o]) =
                              Coerced(optheap[o].type, Args[stream.index + 2]) ]_vars
    /\ [][ \A o \in DOMAIN optheap :
              ( /\ nprog' = nprog + 1
                /\ optheap[o].type = "STRING"
                /\ Len(optheap'[o].values) > Len(optheap[o].values) )
              => \E v \in SetStrValues :
                    /\ optheap'[o].values = Append(optheap[o].values, v)
                    /\ option_get(optheap'[o]) = v ]_vars
    /\ []( \A i \in 1..pcreg : \A k \in CallKeys(Script[i]) :
              ( /\ IsScalarCall(Script[i])
                /\ FreshKeys(i)
                /\ nprog = 0
                /\ ~argparser_found(parsers[Script[i].parser], k, optheap) )
              => argparser_get(parsers[Script[i].parser], k, optheap) = DefaultOf(Script[i]) )
    /\ []( ( /\ phase = "done"
             /\ map_contains(parsers[Root].options, s_name)
             /\ optheap[map_get(parsers[Root].options, s_name)].type = "STRING" )
           => /\ Args = <<Long(s_name), s_val1, Long(Eq(s_name, <<"x">>))>>
                    => argparser_get(parsers[Root], s_name, optheap) = <<"x">>
              /\ Args = <<Long(Eq(s_name, <<"x">>)), Long(s_name), s_val1>>
                    => argparser_get(parsers[Root], s_name, optheap) = s_val1 )

\* Registered with default d, set by the program to v2, then given v1 on the
\* command line.
C17_Witness ==
    /\ phase = "done"
    /\ Args = <<Long(s_name), s_val1>>
    /\ map_contains(parsers[Root].options, s_name)
    /\ argparser_get_list(parsers[Root], s_name, optheap) = <<<<"d">>, s_val2, s_val1>>
    /\ argparser_get(parsers[Root], s_name, optheap) = s_val1

-----------------------------------------------------------------------------
(* C18 *)

\* How many times ap_free released the object x.
TimesReleased(x) == Cardinality({i \in 1..Len(released) : released[i] = x})

\* C18: after ap_free of the root, every option and every parser (the root and
\* every command parser below it, with its positional list) has been released
\* exactly once, whatever the number of keys it is registered under, and
\* nothing else has been released.
C18_ReleasedExactlyOnce ==
    phase = "freed" =>
       /\ \A o \in DOMAIN optheap : TimesReleased(Released("option", o)) = 1
       /\ \A p \in DOMAIN parsers :
             /\ TimesReleased(Released("parser", p)) = 1
             /\ TimesReleased(Released("arglist", p)) = 1
       /\ Len(released) = Len(optheap) + 2 * Len(parsers)

\* A command under two names, with commands of its own and an option under two names.
C18_Witness ==
    /\ phase = "freed"
    /\ Len(parsers) = 4
    /\ Len(parsers[Root].commands) = 2
    /\ parsers[Root].commands[1].value = parsers[Root].commands[2].value
    /\ Len(parsers[2].options) = 2
    /\ TimesReleased(Released("option", 1)) = 1
    /\ TimesReleased(Released("parser", 2)) = 1

-----------------------------------------------------------------------------
(* C19 *)

\* The callback registered on node n for the command it has matched (NULL if none).
MatchedCallback(n) ==
    IF argparser_has_cmd(parsers[n])
    THEN map_get(parsers[n].callbacks, parsers[n].cmd_name[1])
    ELSE NULL

\* C19: a callback is invoked only by the node that matched its command, with
\* the command's parser as argument, after that parser's loop has returned and
\* every token of the stream has been consumed.  When the first parse has
\* returned, each node that matched a command with a non-null callback has had
\* that callback invoked exactly once and no other callback has been invoked;
\* when the parse has ended the process no callback has been invoked.
C19_CallbackAfterChild ==
    /\ [][ calls' # calls =>
             /\ phase = "parse"
             /\ Len(calls') = Len(calls) + 1
             /\ SubSeq(calls', 1, Len(calls)) = calls
             /\ ~argstream_has_next(stream)
             /\ calls'[Len(calls')].cb # NULL
             /\ calls'[Len(calls')].cb = MatchedCallback(Top.parser)
             /\ calls'[Len(calls')].parser = parsers[Top.parser].cmd_parser
             /\ \A f \in DOMAIN stack : stack[f].parser # calls'[Len(calls')].parser
         ]_vars
    /\ []( (phase = "done" /\ nparse = 1) =>
             /\ \A n \in DOMAIN parsers :
                   MatchedCallback(n) # NULL =>
                      Cardinality({i \in DOMAIN calls :
                                      /\ calls[i].cb = MatchedCallback(n)
                                      /\ calls[i].parser = parsers[n].cmd_parser}) = 1
             /\ Len(calls) = Cardinality({n \in DOMAIN parsers : MatchedCallback(n) # NULL}) )
    /\ []( (phase = "exit" /\ nparse = 1 /\ ret = NoRet) => calls = <<>> )

\* `rem add x`: add's callback with add's parser, then rem's with rem's.
C19_Witness ==
    /\ phase = "done"
    /\ nparse = 1
    /\ Len(calls) = 2
    /\ calls[1].cb = 2 /\ calls[1].parser = 3
    /\ calls[2].cb = 1 /\ calls[2].parser = 2
    /\ parsers[3].arguments = <<<<"x">>>>

-----------------------------------------------------------------------------
(* C20 *)

\* Node n has matched a command in the parse in progress.
CommandMatched(n) ==
    \E i \in DOMAIN fate : fate[i].kind = "command" /\ fate[i].node = n

\* The options registered on node n.
OptionsOf(n) == {parsers[n].options[i].value : i \in DOMAIN parsers[n].options}

\* C20: during a parse, once a node has matched a command no step changes
\* that node (its positional list, its matched command) or one of its options,
\* and the node reads no further token; so a node matches at most one command
\* in a parse.  When the parse has returned, every node has either no matched
\* command (no name and no parser), or a name and a parser such that the parser
\* is the one registered under that name on the node and its parent is the node.
C20_OneCommandPerNode ==
    /\ [][ \A n \in DOMAIN parsers :
              (phase = "parse" /\ CommandMatched(n)) =>
                 /\ parsers'[n] = parsers[n]
                 /\ \A o \in OptionsOf(n) : optheap'[o] = optheap[o]
                 /\ \A i \in DOMAIN fate : fate'[i].node = n => fate[i].node = n
         ]_vars
    /\ []( phase \in {"parse", "done"} =>
              \A n \in DOMAIN parsers :
                 Cardinality({i \in DOMAIN fate :
                                 fate[i].kind = "command" /\ fate[i].node = n}) <= 1 )
    /\ []( phase \in {"done", "post"} =>
              \A n \in DOMAIN parsers :
                 \/ /\ parsers[n].cmd_name = NULLSTR
                    /\ parsers[n].cmd_parser = NULL
                    /\ ~argparser_has_cmd(parsers[n])
                 \/ /\ parsers[n].cmd_name # NULLSTR
                    /\ map_contains(parsers[n].commands, parsers[n].cmd_name[1])
                    /\ parsers[n].cmd_parser =
                          map_get(parsers[n].commands, parsers[n].cmd_name[1])
                    /\ parsers[parsers[n].cmd_parser].parent = n )

C20_Witness ==
    /\ phase = "done"
    /\ nparse = 1
    /\ Args = <<<<"r", "e", "m">>, s_add, s_add>>
    /\ parsers[Root].cmd_name = StrPtr(<<"r", "e", "m">>)
    /\ parsers[Root].cmd_parser = 2
    /\ parsers[2].arguments = <<>>
    /\ parsers[2].cmd_parser = 3
    /\ parsers[3].arguments = <<s_add>>

-----------------------------------------------------------------------------
(* C21 *)

\* The step changes the value sequence of option o to vals and nothing else of
\* the options and parsers: not o's found flag, no other option, no positional
\* list, no matched command.
OnlyValuesOf(o, vals) ==
    /\ optheap' = [optheap EXCEPT ![o].values = vals]
    /\ parsers' = parsers

\* C21: a clear-list call on a named option empties that option's value
\* sequence, and a programmatic set (flag, string, integer) appends exactly the
\* given value at its end; either changes nothing else: the option's found flag,
\* every other option, every positional list and every matched command stay as
\* they were.  So the values appended after a clear are the only contents, in
\* the order of the appends.
C21_ClearAndSetFrame ==
    [][ \A p \in DOMAIN parsers : \A name \in Keys(parsers[p].options) :
           LET o == map_get(parsers[p].options, name) IN
           /\ ap_clear_list(p, name) => OnlyValuesOf(o, <<>>)
           /\ \A v \in BOOLEAN :
                 ap_set_flag(p, name, v) => OnlyValuesOf(o, Append(optheap[o].values, v))
           /\ \A v \in SetStrValues :
                 ap_set_str(p, name, v) => OnlyValuesOf(o, Append(optheap[o].values, v))
           /\ \A v \in SetIntValues :
                 ap_set_int(p, name, v) => OnlyValuesOf(o, Append(optheap[o].values, v))
      ]_vars

\* A list matched on the command line next to a command, then cleared by the
\* program and set twice.
C21_Witness ==
    /\ phase = "post"
    /\ nprog = 3
    /\ Args = <<Long(s_tags), s_push, s_push>>
    /\ map_contains(parsers[Root].options, s_tags)
    /\ argparser_found(parsers[Root], s_tags, optheap)
    /\ argparser_get_list(parsers[Root], s_tags, optheap) = <<s_val1, s_val2>>
    /\ argparser_get_cmd_name(parsers[Root]) = StrPtr(s_push)

-----------------------------------------------------------------------------
(* C22 *)

\* The token t does not begin with a dash, or is exactly a dash, or has a digit
\* as its second character.
LooksLikeValue(t) ==
    \/ Len(t) = 0
    \/ t[1] # "-"
    \/ t = <<"-">>
    \/ (Len(t) >= 2 /\ t[2] \in {"0", "1", "2", "3", "4", "5", "6", "7", "8", "9"})

\* The number of consecutive tokens of the stream, from Args[from] on, that
\* look like values.
RECURSIVE LookRunLen(_)
LookRunLen(from) ==
    IF from <= stream.len /\ LooksLikeValue(Args[from]) THEN 1 + LookRunLen(from + 1) ELSE 0

\* The bundle b, on parser p, is a run of registered flags followed by one last
\* registered option that is not a flag.
FlagsThenOption(p, b) ==
    /\ strlen(b) >= 1
    /\ \A k \in 1..Len(b) : ShortOpt(p, b[k]) # NULL
    /\ \A k \in 1..(Len(b) - 1) : optheap[ShortOpt(p, b[k])].type = "FLAG"
    /\ optheap[ShortOpt(p, b[Len(b)])].type # "FLAG"

\* The step is on the non-flag option o, after which the stream continues at
\* Args[from]: without a token there that looks like a value it is the fatal
\* 'missing argument' error and consumes nothing after the option token;
\* otherwise it consumes that token and, if o is greedy, every following one up
\* to the first that does not look like a value.
ValueDecidedByLookahead(o, from) ==
    IF LookRunLen(from) = 0
    THEN /\ phase' = "exit"
         /\ exit_code' = 1
         /\ output' = "missing argument"
         /\ stream'.index = from - 1
         /\ optheap'[o].values = optheap[o].values
    ELSE /\ output' # "missing argument"
         /\ phase' = "parse" =>
               /\ stream'.index = from - 1 + (IF optheap[o].greedy THEN LookRunLen(from) ELSE 1)
               /\ Len(optheap'[o].values) = Len(optheap[o].values) + stream'.index - (from - 1)

\* C22: on every stream and at every cursor position the lookahead is true
\* exactly when there is a next token and it looks like a value (false at the
\* end of the stream, for `--` and for `-x`; true for `-` and `-5`); it does not
\* move the cursor; and it alone decides, for a non-flag option given as a long
\* option or at the end of a short bundle, whether the option gets a value and
\* where greedy consumption stops.
C22_ValueLookahead ==
    /\ []( \A i \in 0..stream.len :
              argstream_has_next_value([stream EXCEPT !.index = i])
              = (i < stream.len /\ LooksLikeValue(Args[i + 1])) )
    /\ []( \A t \in TestValues :
              argstream_has_next_value(argstream_new(1, <<t>>)) = LooksLikeValue(t) )
    /\ []( /\ ~argstream_has_next_value(argstream_new(0, <<>>))
           /\ ~argstream_has_next_value(argstream_new(1, <<s_dashdash>>))
           /\ ~argstream_has_next_value(argstream_new(1, <<<<"-", "x">>>>))
           /\ argstream_has_next_value(argstream_new(1, <<s_dash>>))
           /\ argstream_has_next_value(argstream_new(1, <<s_neg5>>)) )
    /\ [][ ( /\ AtRegisteredLong
             /\ optheap[map_get(parsers[Top.parser].options, OptionText)].type # "FLAG" )
           => ValueDecidedByLookahead(map_get(parsers[Top.parser].options, OptionText),
                                      stream.index + 2) ]_vars
    /\ [][ (AtShortBundle /\ FlagsThenOption(Top.parser, OptionText))
           => ValueDecidedByLookahead(ShortOpt(Top.parser, OptionText[Len(OptionText)]),
                                      stream.index + 2) ]_vars

\* A greedy list given as a short option takes -5 and stops at `--`.
C22_Witness ==
    /\ phase = "done"
    /\ nparse = 1
    /\ Args = <<Short(<<"t">>), s_neg5, s_dashdash>>
    /\ map_contains(parsers[Root].options, s_tags)
    /\ argparser_get_list(parsers[Root], s_tags, optheap) = <<s_neg5>>
    /\ fate[3].kind = "terminator"

-----------------------------------------------------------------------------
(* C23 *)

\* Every character of the bundle b names, on parser p, a registered option
\* that is not greedy.
AllRegistered(p, b) ==
    /\ strlen(b) >= 1
    /\ \A k \in 1..Len(b) : ShortOpt(p, b[k]) # NULL /\ ~optheap[ShortOpt(p, b[k])].greedy

\* Among the first k characters of b: how many name an option that is not a
\* flag, and how many name the option that character k names.
NonFlagsUpTo(p, b, k) ==
    Cardinality({j \in 1..k : optheap[ShortOpt(p, b[j])].type # "FLAG"})

SameOptUpTo(p, b, k) ==
    Cardinality({j \in 1..k : ShortOpt(p, b[j]) = ShortOpt(p, b[k])})

\* The n tokens after the option token at the cursor are there, value-shaped,
\* and coerce to the type of the option that takes them.
ValuesFor(p, b) ==
    \A k \in 1..Len(b) :
        optheap[ShortOpt(p, b[k])].type # "FLAG"
        => LET i == stream.index + 1 + NonFlagsUpTo(p, b, k) IN
           /\ i <= stream.len
           /\ ValueShaped(Args[i])
           /\ Coercible(optheap[ShortOpt(p, b[k])].type, Args[i])

\* Character k of the bundle at the cursor names a non-flag option, is not the
\* last character, and is preceded by flags only.
TakesValueAt(p, b, k) ==
    /\ k < Len(b)
    /\ optheap[ShortOpt(p, b[k])].type # "FLAG"
    /\ \A j \in 1..(k - 1) : optheap[ShortOpt(p, b[j])].type = "FLAG"

\* C23 as stated: once a non-flag character of the bundle has taken the next
\* token as its value, the later characters of the bundle set no option and
\* consume no token.
C23_Original ==
    [][ \A k \in 1..Len(OptionText) :
          ( /\ AtShortBundle
            /\ AllRegistered(Top.parser, OptionText)
            /\ TakesValueAt(Top.parser, OptionText, k)
            /\ stream.index + 2 <= stream.len
            /\ ValueShaped(Args[stream.index + 2])
            /\ Coercible(optheap[ShortOpt(Top.parser, OptionText[k])].type,
                         Args[stream.index + 2]) )
          => /\ stream'.index = stream.index + 2
             /\ \A j \in (k + 1)..Len(OptionText) :
                   (\A i \in 1..k : ShortOpt(Top.parser, OptionText[i])
                                    # ShortOpt(Top.parser, OptionText[j]))
                   => optheap'[ShortOpt(Top.parser, OptionText[j])]
                      = optheap[ShortOpt(Top.parser, OptionText[j])]
      ]_vars

\* C23, amended: the loop goes on after a non-flag option has taken its value.
\* A step on a bundle of registered, non-greedy options processes every
\* character in order: each option becomes found, each flag gets true
\* appended, and the i-th non-flag character gets the i-th token after the
\* bundle; the step consumes as many tokens as the bundle has non-flag
\* characters, and is the fatal 'missing argument' error when a character finds
\* no value-shaped token.
C23_BundleGoesOn ==
    [][ ( /\ AtShortBundle
          /\ AllRegistered(Top.parser, OptionText) )
        => LET p == Top.parser
               b == OptionText
           IN  IF ValuesFor(p, b)
               THEN /\ phase' = "parse"
                    /\ parsers' = parsers
                    /\ stream'.index = stream.index + 1 + NonFlagsUpTo(p, b, Len(b))
                    /\ \A k \in 1..Len(b) :
                          LET o == ShortOpt(p, b[k])
                              at == Len(optheap[o].values) + SameOptUpTo(p, b, k)
                          IN  /\ optheap'[o].found
                              /\ Len(optheap'[o].values) >= at
                              /\ optheap'[o].values[at] =
                                    IF optheap[o].type = "FLAG" THEN TRUE
                                    ELSE Coerced(optheap[o].type,
                                                 Args[stream.index + 1 + NonFlagsUpTo(p, b, k)])
                    /\ \A o \in DOMAIN optheap :
                          /\ SubSeq(optheap'[o].values, 1, Len(optheap[o].values))
                             = optheap[o].values
                          /\ Len(optheap'[o].values) =
                                Len(optheap[o].values)
                                + Cardinality({k \in 1..Len(b) : ShortOpt(p, b[k]) = o})
               ELSE phase' = "exit" /\ exit_code' = 1
      ]_vars

\* `-ca v1`: c takes v1 and the flag a after it is set all the same.
C23_Witness ==
    /\ phase = "done"
    /\ nparse = 1
    /\ Args = <<<<"-", "c", "a">>, s_val1>>
    /\ AllRegistered(Root, <<"c", "a">>)
    /\ argparser_get(parsers[Root], <<"c">>, optheap) = s_val1
    /\ argparser_found(parsers[Root], <<"a">>, optheap)
    /\ argparser_get(parsers[Root], <<"a">>, optheap) = TRUE

-----------------------------------------------------------------------------
(* C24 *)

\* The characters of the bundle b, from character k on, given one by one as
\* separate short options, each taking its values from the stream s.
RECURSIVE OneByOne(_, _, _, _, _)
OneByOne(parser, b, k, opts, s) ==
    IF k > Len(b) THEN Ret(opts, s, <<>>)
    ELSE LET r == argparser_parse_short_option(parser, <<b[k]>>, opts, s) IN
         IF r.exited THEN r ELSE OneByOne(parser, b, k + 1, r.opts, r.stream)

\* The two parses `-abc foo bar` and `-a foo -b bar -c`.
Condensed == <<<<"-", "a", "b", "c">>, s_foo, s_bar>>
Separate == <<Short(<<"a">>), s_foo, Short(<<"b">>), s_bar, Short(<<"c">>)>>

\* C24: whenever the loop is about to read a short bundle, handling the bundle
\* as one token and handling its characters one after the other as separate
\* short options, on the same stream of values, give the same options, leave
\* the cursor at the same place and end the same way (return, or the same
\* fatal error).  With one-valued options a and b and a flag c, the first parse
\* of `-abc foo bar` and that of `-a foo -b bar -c` both end with a = foo,
\* b = bar, c = true, all three found, and no positional argument.
C24_BundleAsSeparateOptions ==
    /\ AtShortBundle =>
          LET s == argstream_next(stream).stream
              whole == argparser_parse_short_option(parsers[Top.parser], OptionText, optheap, s)
              apart == OneByOne(parsers[Top.parser], OptionText, 1, optheap, s)
          IN  /\ whole.exited = apart.exited
              /\ whole.code = apart.code
              /\ whole.out = apart.out
              /\ whole.opts = apart.opts
              /\ whole.stream = apart.stream
    /\ ( /\ phase = "done"
         /\ nparse = 1
         /\ Args \in {Condensed, Separate}
         /\ pcreg = Len(Script)
         /\ \A c \in {<<"a">>, <<"b">>, <<"c">>} : map_contains(parsers[Root].options, c)
         /\ optheap[ShortOpt(Root, "a")].type # "FLAG"
         /\ optheap[ShortOpt(Root, "b")].type # "FLAG"
         /\ optheap[ShortOpt(Root, "c")].type = "FLAG" )
       => /\ argparser_get(parsers[Root], <<"a">>, optheap) = s_foo
          /\ argparser_get(parsers[Root], <<"b">>, optheap) = s_bar
          /\ argparser_get(parsers[Root], <<"c">>, optheap) = TRUE
          /\ \A c \in {"a", "b", "c"} :
                /\ optheap[ShortOpt(Root, c)].found
                /\ Len(optheap[ShortOpt(Root, c)].values) = 2
          /\ parsers[Root].arguments = <<>>

C24_Witness ==
    /\ phase = "done"
    /\ nparse = 1
    /\ Args = Condensed
    /\ pcreg = Len(Script)
    /\ map_contains(parsers[Root].options, <<"b">>)
    /\ optheap[ShortOpt(Root, "b")].type # "FLAG"
    /\ argparser_get(parsers[Root], <<"b">>, optheap) = s_bar
    /\ argparser_get(parsers[Root], <<"c">>, optheap) = TRUE

-----------------------------------------------------------------------------
(* C25 *)

\* The loop is about to read, with option parsing enabled, the token `help`,
\* which is not a registered command, as the last token of the stream.
AtLoneHelp ==
    /\ InLoop
    /\ Top.parsing
    /\ argstream_peek(stream) = s_help
    /\ ~map_contains(parsers[Top.parser].commands, s_help)
    /\ stream.index + 1 = stream.len

\* C25 as stated: the step on a last token `help` appends it to the node's
\* positional list and the parse goes on to return normally.
C25_Original ==
    [][ AtLoneHelp =>
          /\ phase' = "parse"
          /\ parsers' = [parsers EXCEPT ![Top.parser].arguments = Append(@, s_help)]
      ]_vars

\* C25, amended: the step on a last token `help` is the fatal error 'the help
\* command requires an argument' with status 1; it consumes the token and
\* appends nothing to any positional list and changes no option.
C25_LoneHelpIsFatal ==
    [][ AtLoneHelp =>
          /\ phase' = "exit"
          /\ exit_code' = 1
          /\ output' = "the help command requires an argument"
          /\ stream' = [stream EXCEPT !.index = @ + 1]
          /\ parsers' = parsers
          /\ optheap' = optheap
      ]_vars

\* `file.txt help`: the positional before it is kept, the parse has ended.
C25_Witness ==
    /\ phase = "exit"
    /\ exit_code = 1
    /\ output = "the help command requires an argument"
    /\ Args = <<s_file, s_help>>
    /\ parsers[Root].arguments = <<s_file>>

-----------------------------------------------------------------------------
(* C26 *)

\* What a map binds: its keys, and the value each key is looked up as.
Binding(map) == [k \in Keys(map) |-> map_get(map, k)]

\* The shape of the parser tree and the registration data: for every node its
\* option keys and their options, its command keys and their parsers, the
\* registered callbacks, its parent and its texts; for every option its kind
\* and its greedy flag.
Shape ==
    [nodes   |-> [n \in DOMAIN parsers |->
                     [options   |-> Binding(parsers[n].options),
                      commands  |-> Binding(parsers[n].commands),
                      callbacks |-> Binding(parsers[n].callbacks),
                      parent    |-> parsers[n].parent,
                      helptext  |-> parsers[n].helptext,
                      version   |-> parsers[n].version]],
     options |-> [o \in DOMAIN optheap |->
                     [type |-> optheap[o].type, greedy |-> optheap[o].greedy]]]

\* C26: no step of a parse, from the call of ap_parse to its return or to the
\* exit of the process, changes the shape of the tree or the registration
\* data, so they are the same after any parse as before it.
C26_ParseKeepsShape ==
    [][ (phase = "parse" \/ phase' = "parse") => Shape' = Shape ]_vars

\* A parse through two levels of commands has returned; the tree is as it was
\* registered.
C26_Witness ==
    /\ phase = "done"
    /\ Args = <<<<"r">>, s_add, <<"x">>>>
    /\ pcreg = Len(Script)
    /\ parsers[3].arguments = <<<<"x">>>>
    /\ Shape.nodes[3].parent = 2
    /\ Shape.nodes[1].commands[<<"r">>] = 2
    /\ Shape.nodes[2].options[s_verbose] = 1

-----------------------------------------------------------------------------
(* C27 *)

\* Node a is above node n in the tree.
IsAncestor(a, n) == a # n /\ IsDescendant(n, a)

\* The loop of a command's parser is about to read an option (a long option
\* without `=`, or a short bundle by its first character) whose name is
\* registered on a node above it and not on the node itself.
AtOptionOfAncestor ==
    LET key == IF AtLongOption THEN OptionText ELSE <<CharAt(OptionText, 0)>> IN
    /\ AtLongOption \/ AtShortBundle
    /\ key \notin {s_help, s_version}
    /\ ~map_contains(parsers[Top.parser].options, key)
    /\ \E a \in DOMAIN parsers :
          IsAncestor(a, Top.parser) /\ map_contains(parsers[a].options, key)

\* C27: no two nodes share an option; a step of a parse changes only the node
\* whose loop is running and that node's options, so the nodes that have
\* matched a command (the callers of the running loop) keep their option
\* values, found flags and positional lists; every token after a command token
\* is read by the command's parser or one below it; and an option registered
\* only above the running node is the fatal 'not a recognised option' error
\* there, which leaves the option untouched.
C27_NodesIsolated ==
    /\ []( \A m, n \in DOMAIN parsers : m # n => OptionsOf(m) \cap OptionsOf(n) = {} )
    /\ [][ (phase = "parse" /\ stack # <<>>) =>
              /\ \A m \in DOMAIN parsers : m # Top.parser => parsers'[m] = parsers[m]
              /\ \A o \in DOMAIN optheap :
                    o \notin OptionsOf(Top.parser) => optheap'[o] = optheap[o]
              /\ \A i \in 1..(Len(stack) - 1) :
                    /\ stack[i].parser # Top.parser
                    /\ parsers'[stack[i].parser] = parsers[stack[i].parser]
                    /\ \A o \in OptionsOf(stack[i].parser) : optheap'[o] = optheap[o]
         ]_vars
    /\ []( \A i, j \in DOMAIN fate :
              (i < j /\ fate[i].kind = "command" /\ fate[j].kind # "unread")
              => /\ IsAncestor(fate[i].node, fate[j].node)
                 /\ IsDescendant(fate[j].node,
                                 map_get(parsers[fate[i].node].commands, Args[i])) )
    /\ [][ AtOptionOfAncestor =>
              /\ phase' = "exit"
              /\ exit_code' = 1
              /\ output' = "not a recognised option"
              /\ parsers' = parsers
              /\ optheap' = optheap
         ]_vars

\* `rem add -v`: the flag v is registered on rem, and -v comes after add.
C27_Witness ==
    /\ phase = "exit"
    /\ output = "not a recognised option"
    /\ Args = <<<<"r", "e", "m">>, s_add, Short(<<"v">>)>>
    /\ stream.index = 3
    /\ pcreg = Len(Script)
    /\ ~argparser_found(parsers[2], <<"v">>, optheap)
    /\ argparser_get_cmd_name(parsers[2]) = StrPtr(s_add)

-----------------------------------------------------------------------------
(* C28 *)

\* The number of tokens the parse read as `kind`.
CountKind(kind) == Cardinality({i \in DOMAIN fate : fate[i].kind = kind})

\* The total length of the positional lists of the nodes 1..n.
RECURSIVE TotalArguments(_)
TotalArguments(n) ==
    IF n = 0 THEN 0 ELSE Len(parsers[n].arguments) + TotalArguments(n - 1)

\* An option token without its dashes.
Undashed(t) == IF HasPrefix(t, s_dashdash) THEN StrFrom(t, 2) ELSE StrFrom(t, 1)

\* What token i gave to the non-flag option o: itself, as a value token of o,
\* or the text after its `=`, as an option token of the form name=value.
GivenBy(o, i) ==
    IF fate[i].kind = "value" /\ fate[i].opt = o THEN <<Args[i]>>
    ELSE IF /\ fate[i].kind = "option"
            /\ strchr(Args[i], "=") # -1
            /\ map_get(parsers[fate[i].node].options,
                       StrUpto(Undashed(Args[i]), strchr(Undashed(Args[i]), "="))) = o
         THEN <<StrFrom(Args[i], strchr(Args[i], "=") + 1)>>
         ELSE <<>>

\* The values the first upto tokens gave to option o, coerced, in input order.
RECURSIVE ValuesTaken(_, _)
ValuesTaken(o, upto) ==
    IF upto = 0 THEN <<>>
    ELSE ValuesTaken(o, upto - 1)
         \o [k \in 1..Len(GivenBy(o, upto)) |-> Coerced(optheap[o].type, GivenBy(o, upto)[k])]

\* C28: when the first parse has returned, every token of the input was read
\* exactly once, as a dropped `--`, an option token, a value, a matched command
\* name or a positional argument; the values the tokens gave to each non-flag
\* option (value tokens, and the value part of name=value tokens) are, in input
\* order, the last values of that option and of no other; each node's
\* positional list is exactly the sequence, in input order, of the tokens that
\* node read as positionals, so the lists' lengths add up to the number of
\* such tokens; and a node's positionals all precede its command token, which
\* precedes every positional of the matched child.
C28_TokensAccounted ==
    (phase = "done" /\ nparse = 1) =>
       /\ Len(fate) = Len(Args)
       /\ \A i \in DOMAIN fate :
             /\ fate[i].kind \in {"terminator", "option", "value", "command", "positional"}
             /\ fate[i].node \in DOMAIN parsers
             /\ fate[i].kind = "terminator" => (Args[i] = s_dashdash /\ fate[i].parsing)
             /\ fate[i].kind = "command" =>
                   /\ map_contains(parsers[fate[i].node].commands, Args[i])
                   /\ parsers[fate[i].node].cmd_name = StrPtr(Args[i])
             /\ fate[i].kind = "value" =>
                   /\ fate[i].opt \in OptionsOf(fate[i].node)
                   /\ optheap[fate[i].opt].type # "FLAG"
       /\ \A o \in DOMAIN optheap :
             LET taken == ValuesTaken(o, Len(fate)) IN
             /\ Len(optheap[o].values) >= Len(taken)
             /\ optheap[o].type # "FLAG" =>
                   SubSeq(optheap[o].values, Len(optheap[o].values) - Len(taken) + 1,
                          Len(optheap[o].values)) = taken
       /\ \A n \in DOMAIN parsers : parsers[n].arguments = PositionalsOf(n, Len(fate))
       /\ TotalArguments(Len(parsers)) = CountKind("positional")
       /\ CountKind("terminator") + CountKind("option") + CountKind("value")
          + CountKind("command") + TotalArguments(Len(parsers)) = Len(Args)
       /\ \A i, j \in DOMAIN fate :
             (fate[j].kind = "command" /\ fate[i].kind = "positional")
             => /\ fate[i].node = fate[j].node => i < j
                /\ fate[i].node = parsers[fate[j].node].cmd_parser => j < i

\* `--tags x y z -- w`: an option token, three values, a terminator, a positional.
C28_Witness ==
    /\ phase = "done"
    /\ nparse = 1
    /\ Len(Args) = 6
    /\ fate[1].kind = "option"
    /\ fate[4].kind = "value"
    /\ fate[5].kind = "terminator"
    /\ fate[6].kind = "positional"
    /\ parsers[Root].arguments = <<Args[6]>>

-----------------------------------------------------------------------------
(* C29 *)

\* The string a read past the end of the argument array yields is somewhere in
\* the parsers or the options.
OutOfBoundsRead ==
    \/ \E n \in DOMAIN parsers :
          OOB \in Range(parsers[n].arguments) \/ parsers[n].cmd_name = StrPtr(OOB)
    \/ \E o \in DOMAIN optheap :
          optheap[o].type = "STRING" /\ OOB \in Range(optheap[o].values)

\* C29: the cursor stays within 0..len; the tokens read so far are exactly
\* those before the cursor, so every read (by the main loop, by an option for
\* its value, by greedy consumption, by `help <command>`) was of a token at an
\* index below len and moved the cursor past it; nothing read past the end of
\* the array is ever stored; and during a parse the cursor never moves back
\* and the stream's length and tokens do not change.
C29_CursorInBounds ==
    /\ []( /\ 0 <= stream.index
           /\ stream.index <= stream.len
           /\ stream.len = Len(stream.args)
           /\ DOMAIN fate = 1..stream.len
           /\ \A i \in DOMAIN fate : (fate[i].kind # "unread") <=> (i <= stream.index)
           /\ ~OutOfBoundsRead )
    /\ [][ phase = "parse" =>
              /\ stream'.index >= stream.index
              /\ stream'.len = stream.len
              /\ stream'.args = stream.args ]_vars

\* A greedy option has consumed the stream to its end.
C29_Witness ==
    /\ phase = "done"
    /\ nparse = 1
    /\ Args = <<Long(s_tags), <<"x">>, <<"y">>>>
    /\ stream.index = stream.len
    /\ map_contains(parsers[Root].options, s_tags)
    /\ argparser_get_list(parsers[Root], s_tags, optheap) = <<<<"x">>, <<"y">>>>

-----------------------------------------------------------------------------
(* C30 *)

\* The number of activations on the stack that are back from a command's parser
\* and have still to call the callback.
AfterCommand == Cardinality({i \in DOMAIN stack : stack[i].pc = "after_cmd"})

\* What is left to do of the parse in progress: tokens to read, activations to
\* return from, callbacks to call.
Remaining == 3 * (stream.len - stream.index) + Len(stack) + AfterCommand

\* The parse in progress can take a step: the activation on top of the stack
\* calls the callback of the command it is back from, or returns, or handles
\* the token at the cursor in one of the branches of its loop.
CanStep ==
    \/ ENABLED CallCallback
    \/ ENABLED ParseReturn
    \/ ENABLED ParseVerbatim
    \/ ENABLED ParseTerminator
    \/ ENABLED ParseDash
    \/ ENABLED ParseCommand
    \/ ENABLED ParseHelp
    \/ ENABLED ParsePositional
    \/ Branch("long")
    \/ Branch("short")

\* C30: a parse cannot go on for ever and cannot stop half way.  Every
\* iteration of the loop of any activation consumes at least one token; every
\* step of the parse either ends the process or makes what remains of the
\* parse smaller, and what remains is a natural number; as long as the parse
\* has neither returned nor ended the process it can take a step; an
\* activation returns only when the stream is exhausted, so when ap_parse has
\* returned the stream is fully consumed and no activation is left.
C30_ParseTerminates ==
    /\ [][ InLoop => stream'.index > stream.index ]_vars
    /\ [][ phase = "parse" =>
              \/ phase' = "exit"
              \/ Remaining' < Remaining /\ phase' \in {"parse", "done"} ]_vars
    /\ []( phase = "parse" => (Remaining >= 1 /\ stack # <<>> /\ CanStep) )
    /\ [][ (phase = "parse" /\ Len(stack') < Len(stack)) => stream.index = stream.len ]_vars
    /\ []( phase = "done" => (stream.index = stream.len /\ stack = <<>>) )

\* A parse through two levels of commands has returned.
C30_Witness ==
    /\ phase = "done"
    /\ nparse = 1
    /\ Args = <<<<"r">>, s_rm, <<"x">>>>
    /\ stream.index = 3
    /\ stack = <<>>
    /\ Len(parsers) = 4
    /\ parsers[4].arguments = <<<<"x">>>>

-----------------------------------------------------------------------------
(* C31 *)

\* The nodes of the chain of matched commands below the root, outermost first:
\* the command parser of the root, the command parser of that one, and so on.
RECURSIVE ChainFrom(_)
ChainFrom(n) ==
    IF argparser_has_cmd(parsers[n])
    THEN <<parsers[n].cmd_parser>> \o ChainFrom(parsers[n].cmd_parser)
    ELSE <<>>

\* The callbacks along a chain of command parsers (each registered on the
\* parent of the node), innermost first, the NULL ones left out.
RECURSIVE InnermostFirst(_)
InnermostFirst(chain) ==
    IF chain = <<>> THEN <<>>
    ELSE LET c == chain[Len(chain)]
             cb == MatchedCallback(parsers[c].parent)
         IN  (IF cb # NULL THEN <<[cb |-> cb, parser |-> c]>> ELSE <<>>)
             \o InnermostFirst(SubSeq(chain, 1, Len(chain) - 1))

\* C31: when the first parse has returned, the callbacks invoked are those of
\* the chain of matched commands root -> c1 -> ... -> ck, each once, in the
\* order ck, ..., c1, each with its command's parser, and each was invoked
\* with every token of the stream consumed.  At every invocation during a
\* parse the stream is exhausted, the callbacks of the commands matched below
\* the invoking node have all been invoked and none of a node above has.
C31_InnermostFirst ==
    /\ []( (phase = "done" /\ nparse = 1) =>
             /\ [i \in DOMAIN calls |-> [cb |-> calls[i].cb, parser |-> calls[i].parser]]
                   = InnermostFirst(ChainFrom(Root))
             /\ \A i \in DOMAIN calls : calls[i].index = stream.len
             /\ \A i, j \in DOMAIN calls :
                   i < j => /\ IsAncestor(calls[j].parser, calls[i].parser)
                            /\ calls[j].depth < calls[i].depth )
    /\ [][ (calls' # calls /\ nparse = 1) =>
             /\ stream.index = stream.len
             /\ [i \in DOMAIN calls |-> [cb |-> calls[i].cb, parser |-> calls[i].parser]]
                   = InnermostFirst(ChainFrom(parsers[Top.parser].cmd_parser))
             /\ \A f \in 1..(Len(stack) - 1) :
                   \A i \in DOMAIN calls' : calls'[i].parser # stack[f].cmd_parser
         ]_vars

\* `a b c`: c's callback, then b's, then a's, each after the third token.
C31_Witness ==
    /\ phase = "done"
    /\ nparse = 1
    /\ Args = <<<<"a">>, <<"b">>, <<"c">>>>
    /\ [i \in DOMAIN calls |-> calls[i].cb] = <<3, 2, 1>>
    /\ [i \in DOMAIN calls |-> calls[i].parser] = <<4, 3, 2>>
    /\ \A i \in DOMAIN calls : calls[i].index = 3

-----------------------------------------------------------------------------
(* C32 *)

\* The entries of a map whose key no earlier entry has.
FirstEntries(map) == {i \in DOMAIN map : \A j \in 1..(i - 1) : map[j].key # map[i].key}

\* The value of the first entry of the map with the key.
FirstBound(map, key) == map[CHOOSE i \in FirstEntries(map) : map[i].key = key].value

\* The values of a map that no key leads to first: each of their entries comes
\* after an entry with the same key.
Hidden(map) == {map[i].value : i \in DOMAIN map} \ {map[i].value : i \in FirstEntries(map)}

\* The options, command parsers and callbacks registered on some node under
\* keys that were all bound on that node before.
HiddenOptions == UNION {Hidden(parsers[n].options) : n \in DOMAIN parsers}
HiddenParsers == UNION {Hidden(parsers[n].commands) : n \in DOMAIN parsers}
HiddenCallbacks == UNION {Hidden(parsers[n].callbacks) : n \in DOMAIN parsers}

\* C32: a registration under a key the node already has adds its entries and
\* keeps the earlier ones.  Every lookup by a key gives the value of the first
\* entry with that key: the option of a query, the option a long option token
\* writes to, the parser and the callback of a command token, the help text the
\* help command prints.  An option or command parser whose keys were all bound
\* before is never written to, never returned by a query, never parsed into
\* and its callback is never invoked; ap_free still releases it exactly once.
C32_FirstRegistrationWins ==
    /\ [][ pcreg' = pcreg + 1 =>
             LET call == Script[pcreg + 1]
                 n == Len(SplitKeys(call.name, 0, <<>>))
             IN  \A p \in DOMAIN parsers :
                    /\ SubSeq(parsers'[p].options, 1, Len(parsers[p].options)) = parsers[p].options
                    /\ SubSeq(parsers'[p].commands, 1, Len(parsers[p].commands))
                          = parsers[p].commands
                    /\ Len(parsers'[p].options) = Len(parsers[p].options)
                          + (IF p = call.parser /\ call.op # "add_cmd" THEN n ELSE 0)
                    /\ Len(parsers'[p].commands) = Len(parsers[p].commands)
                          + (IF p = call.parser /\ call.op = "add_cmd" THEN n ELSE 0)
                    /\ Len(parsers'[p].callbacks) = Len(parsers'[p].commands) ]_vars
    /\ []( \A p \in DOMAIN parsers :
             /\ \A k \in Keys(parsers[p].options) :
                   /\ argparser_get_opt(parsers[p], k) = FirstBound(parsers[p].options, k)
                   /\ Len(optheap[FirstBound(parsers[p].options, k)].values) > 0 =>
                         argparser_get(parsers[p], k, optheap)
                            = option_get(optheap[FirstBound(parsers[p].options, k)])
             /\ \A k \in Keys(parsers[p].commands) :
                   /\ map_get(parsers[p].commands, k) = FirstBound(parsers[p].commands, k)
                   /\ map_get(parsers[p].callbacks, k) = FirstBound(parsers[p].callbacks, k) )
    /\ [][ (AtLongOption /\ map_contains(parsers[Top.parser].options, OptionText)) =>
             /\ optheap'[FirstBound(parsers[Top.parser].options, OptionText)].found
             /\ \A o \in DOMAIN optheap :
                   optheap'[o] # optheap[o] =>
                      o = FirstBound(parsers[Top.parser].options, OptionText) ]_vars
    /\ [][ Branch("command") =>
             /\ stack'[Len(stack')].parser
                   = FirstBound(parsers[Top.parser].commands, argstream_peek(stream))
             /\ stack'[Len(stack)].cmd_callback
                   = FirstBound(parsers[Top.parser].callbacks, argstream_peek(stream)) ]_vars
    /\ [][ (Branch("help") /\ phase' = "exit" /\ exit_code' = 0 /\ output' # "(null)") =>
             output' = parsers[FirstBound(parsers[Top.parser].commands,
                                          stream.args[stream.index + 2])].helptext[1] ]_vars
    /\ [][ phase # "reg" =>
             /\ \A o \in HiddenOptions : optheap'[o] = optheap[o]
             /\ \A p \in HiddenParsers : parsers'[p] = parsers[p] ]_vars
    /\ []( /\ \A o \in HiddenOptions : ret.kind \in {"value", "indeterminate"} => ret.opt # o
           /\ \A p \in HiddenParsers :
                 /\ \A f \in DOMAIN stack : stack[f].parser # p /\ stack[f].cmd_parser # p
                 /\ \A n \in DOMAIN parsers : parsers[n].cmd_parser # p
                 /\ \A i \in DOMAIN calls : calls[i].parser # p
           /\ pcreg = Len(Script) =>
                 \A i \in DOMAIN calls : calls[i].cb \notin HiddenCallbacks )
    /\ []( phase = "freed" =>
             /\ \A o \in HiddenOptions : TimesReleased(Released("option", o)) = 1
             /\ \A p \in HiddenParsers :
                   /\ TimesReleased(Released("parser", p)) = 1
                   /\ TimesReleased(Released("arglist", p)) = 1 )

\* name registered twice and push registered twice; `--name v1 push` has
\* written to the first option and run the first command, and after ap_free
\* the second option and the second command parser have been released once.
C32_Witness ==
    /\ phase = "freed"
    /\ nparse = 1
    /\ Args = <<Long(s_name), s_val1, s_push>>
    /\ Len(parsers[Root].options) = 2
    /\ parsers[Root].options[1].key = parsers[Root].options[2].key
    /\ HiddenOptions = {2}
    /\ HiddenParsers = {3}
    /\ HiddenCallbacks = {2}
    /\ optheap[1].values = <<<<"d">>, s_val1>>
    /\ optheap[2].values = <<<<"e">>>>
    /\ parsers[Root].cmd_parser = 2
    /\ [i \in DOMAIN calls |-> calls[i].cb] = <<1>>
    /\ TimesReleased(Released("option", 2)) = 1
    /\ TimesReleased(Released("parser", 3)) = 1

-----------------------------------------------------------------------------
(* C33 *)

\* Token i was read from the stream by an option handler as a value.
ReadAsValue(i) == fate[i].kind \in {"value", "badvalue"}

\* C33: the step on an option token with `=` (long or short, the option greedy
\* or not, the step fatal or not) moves the cursor past that one token, reads
\* no other token and appends at most one value to any option.  So a token is
\* read as a value only after an option token without `=` or after another
\* value of that token, and the token after an `=` token is fetched by the
\* loop.  `--tags=a b c` and `-t=a b c` with tags greedy end with the one
\* value a in tags and the positionals b, c; `-t=a b --tags=a` with a, a and b.
C33_EqualsFormTakesNoToken ==
    /\ [][ AtEqualsOption =>
             /\ stream'.index = stream.index + 1
             /\ stream'.args = stream.args /\ stream'.len = stream.len
             /\ fate'[stream.index + 1].kind = "option"
             /\ \A i \in DOMAIN fate : i # stream.index + 1 => fate'[i] = fate[i]
             /\ \A o \in DOMAIN optheap :
                   \/ optheap'[o].values = optheap[o].values
                   \/ /\ Len(optheap'[o].values) = Len(optheap[o].values) + 1
                      /\ SubSeq(optheap'[o].values, 1, Len(optheap[o].values))
                            = optheap[o].values
             /\ (phase' = "parse" /\ argstream_has_next(stream')) => InLoop'
         ]_vars
    /\ []( phase \in {"parse", "done", "exit"} =>
             \A i \in DOMAIN fate :
                ReadAsValue(i) =>
                   /\ i > 1
                   /\ \/ ReadAsValue(i - 1)
                      \/ fate[i - 1].kind = "option" /\ strchr(Args[i - 1], "=") = -1 )
    /\ []( (phase = "done" /\ nparse = 1 /\ Len(optheap) = 1 /\ optheap[1].greedy) =>
             /\ Args \in {<<Long(Eq(s_tags, <<"a">>)), <<"b">>, <<"c">>>>,
                          <<Short(Eq(<<"t">>, <<"a">>)), <<"b">>, <<"c">>>>} =>
                   /\ optheap[1].values = <<<<"a">>>>
                   /\ parsers[Root].arguments = <<<<"b">>, <<"c">>>>
                   /\ fate[2].kind = "positional" /\ fate[3].kind = "positional"
             /\ Args = <<Short(Eq(<<"t">>, <<"a">>)), <<"b">>, Long(Eq(s_tags, <<"a">>))>> =>
                   /\ optheap[1].values = <<<<"a">>, <<"a">>>>
                   /\ parsers[Root].arguments = <<<<"b">>>>
                   /\ fate[3].kind = "option" )

\* `--tags=a b c` with tags greedy has been parsed.
C33_Witness ==
    /\ phase = "done"
    /\ nparse = 1
    /\ Args = <<Long(Eq(s_tags, <<"a">>)), <<"b">>, <<"c">>>>
    /\ optheap[1].greedy
    /\ optheap[1].found
    /\ optheap[1].values = <<<<"a">>>>
    /\ parsers[Root].arguments = <<<<"b">>, <<"c">>>>

-----------------------------------------------------------------------------
(* C34 *)

\* A show token has been matched as a command by the root.
ShowMatched ==
    \E i \in DOMAIN fate : fate[i].kind = "command" /\ fate[i].node = Root /\ Args[i] = s_show

\* The one invocation of ip_show, with the parser of show.
ShowCalled == Len(calls) = 1 /\ calls[1].cb = 1 /\ calls[1].parser = 2

\* ap_parse has returned to main: main is about to test ap_has_cmd, or has
\* ended with 'Missing cmd', or has called ap_free and returned 0.
ParseReturned ==
    \/ phase \in {"done", "freed"}
    \/ phase = "exit" /\ output = "Missing cmd"

\* The claim as stated: in every state of the demo after the parse has started,
\* ended or not, the callback has run exactly once if and only if a show token
\* has been matched as a command.
C34_Original ==
    (IsDemo /\ phase \in {"done", "exit", "freed"}) => (ShowCalled <=> ShowMatched)

\* C34: in the demo the callback runs at most once and only inside ap_parse,
\* by the root, after show was matched and the stream was exhausted.  When
\* ap_parse has returned the callback has run exactly once if and only if a
\* show token was matched as a command, which is what ap_has_cmd then tells;
\* when the parse ends the process (a fatal error or a help text, before or
\* after show) the callback has not run.  With no command matched after the
\* return (no arguments, only positionals, show only after `--`) main ends
\* with status 1 and 'Missing cmd' and nothing is released; with show matched
\* main releases the tree, each object once, and returns 0.
C34_DemoCallback ==
    /\ [][ (IsDemo /\ calls' # calls) =>
             /\ phase = "parse" /\ phase' = "parse"
             /\ calls = <<>>
             /\ ShowCalled'
             /\ Len(stack) = 1 /\ Top.parser = Root
             /\ ShowMatched
             /\ stream.index = stream.len ]_vars
    /\ []( (IsDemo /\ ParseReturned) =>
             /\ ShowCalled <=> ShowMatched
             /\ ShowMatched <=> argparser_has_cmd(parsers[Root])
             /\ ~ShowMatched => calls = <<>> )
    /\ []( (IsDemo /\ phase = "exit" /\ ~ParseReturned) => (calls = <<>> /\ released = <<>>) )
    /\ []( (IsDemo /\ phase = "done") =>
             \/ Args = <<>>
             \/ \E i \in DOMAIN fate : fate[i].kind = "terminator" /\ Args[i] = s_dashdash
             \/ \A i \in DOMAIN fate : fate[i].kind = "positional" /\ Args[i] # s_show
             \/ ShowMatched )
    /\ [][ (IsDemo /\ phase = "done") =>
             IF ShowMatched
             THEN /\ phase' = "freed"
                  /\ exit_code' = 0
                  /\ Len(released') = 4
                  /\ \A p \in DOMAIN parsers :
                        /\ TimesReleased(Released("parser", p))' = 1
                        /\ TimesReleased(Released("arglist", p))' = 1
                  /\ calls' = calls
             ELSE /\ phase' = "exit"
                  /\ exit_code' = 1
                  /\ output' = "Missing cmd"
                  /\ released' = <<>>
                  /\ calls' = <<>> ]_vars
    /\ []( (IsDemo /\ phase = "exit") => released = <<>> )
    /\ []( (IsDemo /\ phase = "freed") => (ShowCalled /\ exit_code = 0 /\ nparse = 1) )

\* `x show x`: ip_show has run once, on the parser of show with its positional
\* x, and main has called ap_free and returned 0.
C34_Witness ==
    /\ IsDemo
    /\ phase = "freed"
    /\ exit_code = 0
    /\ Args = <<<<"x">>, s_show, <<"x">>>>
    /\ ShowCalled
    /\ calls[1].index = 3
    /\ ip_show(parsers[2]) = <<"ifconfig", <<"x">>>>
    /\ parsers[Root].arguments = <<<<"x">>>>
    /\ Len(released) = 4

====
